---- MODULE Spec2Model ----
(***************************************************************************)
(* Model of the AI concierge agent service                                 *)
(* (src/services/agent-service/main.py and core/*.py).                     *)
(*                                                                         *)
(* Python values are represented as follows:                               *)
(*   str        a sequence of one-character strings                        *)
(*   None       the one-element sequence None (for Optional[str]) or the   *)
(*              record NoneDict (for Optional[Dict])                       *)
(*   dict       a function from key names to values; {} is <<>>            *)
(*   list       a sequence                                                 *)
(*   datetime   a proleptic Gregorian ordinal (date.toordinal()), all      *)
(*              datetimes of the model being at midnight                   *)
(* A call that may raise returns [ok |-> TRUE, val |-> v] or               *)
(* [ok |-> FALSE, exc |-> name].                                           *)
(***************************************************************************)
EXTENDS Integers, Sequences, FiniteSets, TLC

VARIABLES
    cfg,     \* core.config.config: JWT_SECRET, USE_OLLAMA, TAVILY_API_KEY
    now,     \* datetime.now() of the request being served (an ordinal)
    phase,   \* process lifecycle: "boot", "validated", "serving", "aborted";
             \* "unit" when a single function is exercised
    dbm,     \* db_manager.db (None until connect())
    db,      \* main.db, the lazily initialised global handle
    pc,      \* position of the request handler ("call", "return" for a
             \* function exercised on its own; per thread under SpecConc)
    req,     \* AgentRequest being served
    cred,    \* HTTPAuthorizationCredentials of the request (or NoCred)
    loc,     \* local variables of plan()
    calls,   \* external calls issued for the current request
    resp,    \* HTTP response of the current request
    fn,      \* unit harness: the function under call
    args,    \* unit harness: its arguments
    ret      \* unit harness: its result

vars == <<cfg, now, phase, dbm, db, pc, req, cred, loc, calls, resp, fn, args, ret>>

-----------------------------------------------------------------------------
(* Python str helpers *)

None == <<"None">>
NoneDict == [None |-> TRUE]

UpperChars == <<"A","B","C","D","E","F","G","H","I","J","K","L","M",
                "N","O","P","Q","R","S","T","U","V","W","X","Y","Z">>
LowerChars == <<"a","b","c","d","e","f","g","h","i","j","k","l","m",
                "n","o","p","q","r","s","t","u","v","w","x","y","z">>
Digits == <<"0","1","2","3","4","5","6","7","8","9">>

SeqRange(s) == {s[i] : i \in 1..Len(s)}
IndexIn(s, c) == CHOOSE i \in 1..Len(s) : s[i] = c
UpperSet == SeqRange(UpperChars)
LowerSet == SeqRange(LowerChars)
AlphaSet == UpperSet \cup LowerSet
DigitSet == SeqRange(Digits)
LowerOf == [c \in UpperSet |-> LowerChars[IndexIn(UpperChars, c)]]
UpperOf == [c \in LowerSet |-> UpperChars[IndexIn(LowerChars, c)]]
DigitValOf == [c \in DigitSet |-> IndexIn(Digits, c) - 1]
IsUpper(c) == c \in UpperSet
IsLower(c) == c \in LowerSet
IsAlpha(c) == c \in AlphaSet
IsDigit(c) == c \in DigitSet
IsSpace(c) == c = " "
ToLower(c) == IF c \in UpperSet THEN LowerOf[c] ELSE c
ToUpper(c) == IF c \in LowerSet THEN UpperOf[c] ELSE c

\* str.lower()
Lower(s) == [i \in 1..Len(s) |-> ToLower(s[i])]

\* str.title(): a cased character is upper-cased when it follows an uncased
\* one (or starts the string) and lower-cased otherwise
Title(s) ==
    [i \in 1..Len(s) |->
        IF i > 1 /\ IsAlpha(s[i-1]) THEN ToLower(s[i]) ELSE ToUpper(s[i])]

\* str.strip()
RECURSIVE LStrip(_)
LStrip(s) == IF s # <<>> /\ IsSpace(Head(s)) THEN LStrip(Tail(s)) ELSE s
RECURSIVE RStrip(_)
RStrip(s) ==
    IF s # <<>> /\ IsSpace(s[Len(s)]) THEN RStrip(SubSeq(s, 1, Len(s) - 1)) ELSE s
Strip(s) == RStrip(LStrip(s))

\* s[:n]
Prefix(s, n) == SubSeq(s, 1, IF Len(s) < n THEN Len(s) ELSE n)

\* needle in haystack
Contains(hay, needle) ==
    \E i \in 1..(Len(hay) - Len(needle) + 1) :
        SubSeq(hay, i, i + Len(needle) - 1) = needle

\* sep.join(parts)
RECURSIVE Join(_, _)
Join(sep, parts) ==
    IF parts = <<>> THEN <<>>
    ELSE IF Len(parts) = 1 THEN parts[1]
    ELSE parts[1] \o sep \o Join(sep, Tail(parts))

\* dict.get(k, default)
Get(d, k, default) == IF k \in DOMAIN d THEN d[k] ELSE default

Ok(v) == [ok |-> TRUE, val |-> v]
Raise(e) == [ok |-> FALSE, exc |-> e]

-----------------------------------------------------------------------------
(* datetime *)

IsLeap(y) == y % 4 = 0 /\ (y % 100 # 0 \/ y % 400 = 0)
DaysInMonth(y, m) ==
    IF m = 2 THEN (IF IsLeap(y) THEN 29 ELSE 28)
    ELSE IF m \in {4, 6, 9, 11} THEN 30 ELSE 31
DaysInYear(y) == IF IsLeap(y) THEN 366 ELSE 365
DaysBeforeYear(y) ==
    (y - 1) * 365 + ((y - 1) \div 4) - ((y - 1) \div 100) + ((y - 1) \div 400)
RECURSIVE DaysBeforeMonth(_, _)
DaysBeforeMonth(y, m) ==
    IF m = 1 THEN 0 ELSE DaysBeforeMonth(y, m - 1) + DaysInMonth(y, m - 1)

\* date.toordinal()
ToOrdinal(y, m, d) == DaysBeforeYear(y) + DaysBeforeMonth(y, m) + d

\* date.fromordinal(n), as [y, m, d]
YearOf(n) ==
    CHOOSE y \in (n \div 366)..(n \div 365 + 1) :
        DaysBeforeYear(y) < n /\ n <= DaysBeforeYear(y + 1)
MonthOf(y, r) ==
    CHOOSE m \in 1..12 :
        DaysBeforeMonth(y, m) < r /\ r <= DaysBeforeMonth(y, m) + DaysInMonth(y, m)
YearMonthDay(y, m, r) == [y |-> y, m |-> m, d |-> r - DaysBeforeMonth(y, m)]
YearAndRest(y, r) == YearMonthDay(y, MonthOf(y, r), r)
YearAnd(y, n) == YearAndRest(y, n - DaysBeforeYear(y))
FromOrdinal(n) == YearAnd(YearOf(n), n)

DigitVal(c) == DigitValOf[c]
DigitChar(n) == Digits[n + 1]
Num2(s) == 10 * DigitVal(s[1]) + DigitVal(s[2])
Fmt2(n) == <<DigitChar(n \div 10), DigitChar(n % 10)>>
Fmt4(n) == Fmt2(n \div 100) \o Fmt2(n % 100)

\* datetime(y, m, d), ValueError when it is no calendar date
DateOf(y, m, d) ==
    IF y >= 1 /\ m \in 1..12 /\ d >= 1 /\ d <= DaysInMonth(y, m)
    THEN Ok(ToOrdinal(y, m, d))
    ELSE Raise("ValueError")

\* datetime.fromisoformat(s) for date-only text "YYYY-MM-DD"; ValueError otherwise
fromisoformat(s) ==
    IF /\ s # None
       /\ Len(s) = 10
       /\ \A i \in {1, 2, 3, 4, 6, 7, 9, 10} : IsDigit(s[i])
       /\ s[5] = "-" /\ s[8] = "-"
    THEN DateOf(100 * Num2(SubSeq(s, 1, 2)) + Num2(SubSeq(s, 3, 4)),
                Num2(SubSeq(s, 6, 7)), Num2(SubSeq(s, 9, 10)))
    ELSE Raise("ValueError")

\* d.strftime('%Y-%m-%d')
FormatDate(t) == Fmt4(t.y) \o <<"-">> \o Fmt2(t.m) \o <<"-">> \o Fmt2(t.d)
strftime(n) == FormatDate(FromOrdinal(n))

\* the while loop of date_range
RECURSIVE DaysLoop(_, _)
DaysLoop(d, d1) == IF d <= d1 THEN <<strftime(d)>> \o DaysLoop(d + 1, d1) ELSE <<>>

\* days or [d0.strftime('%Y-%m-%d')]
DaysOr(days, d0) == IF days # <<>> THEN days ELSE <<strftime(d0)>>

\* lines 172-179, d0 and d1 being the parsed dates
DateRangeOf_exclusive(d0, d1) ==
    IF ~d0.ok \/ ~d1.ok THEN Raise("ValueError")
    ELSE IF d0.val > d1.val THEN Raise("ValueError")
    ELSE Ok(DaysOr(DaysLoop(d0.val, d1.val - 1), d0.val))

DateRangeOf(d0, d1) ==
    IF ~d0.ok \/ ~d1.ok THEN Raise("ValueError")
    ELSE IF d0.val > d1.val THEN Raise("ValueError")
    ELSE Ok(DaysOr(DaysLoop(d0.val, d1.val), d0.val))

date_range(start, end) == DateRangeOf(fromisoformat(start), fromisoformat(end))


-----------------------------------------------------------------------------
(* Token Verifier *)

Rep(c, n) == [i \in 1..n |-> c]

MinSecretLen == 32

\* secrets the environment may configure: unset, blank, too short, strong
EmptySecret == <<>>
BlankSecret == Rep(" ", MinSecretLen)
WeakSecret == Rep("w", MinSecretLen - 1)
StrongSecret == Rep("k", MinSecretLen)
OtherSecret == Rep("x", MinSecretLen)
Secrets == {EmptySecret, BlankSecret, WeakSecret, StrongSecret}

NoCred == [None |-> TRUE]
MalformedToken == [malformed |-> TRUE]

\* claim sets a token may carry: 'id' and 'role' each present or absent
Payloads ==
    {[sub |-> "u1"], [id |-> "u1"], [role |-> "TRAVELER"]}
    \cup {[id |-> "u1", role |-> r] : r \in {"TRAVELER", "OWNER", "traveler"}}

\* a JWT: the key that signed it, its header algorithm, its exp claim
\* relative to the verifier's clock, and its claim set
Tokens ==
    {MalformedToken}
    \cup [key : {StrongSecret, WeakSecret, BlankSecret, OtherSecret},
          alg : {"HS256", "none"},
          exp : {"absent", "future", "past"},
          payload : Payloads]

Creds == {NoCred} \cup {[credentials |-> t] : t \in Tokens}

\* jwt.decode(token, key, algorithms=['HS256'])
jwt_decode(token, key) ==
    IF token = MalformedToken THEN Raise("InvalidTokenError")
    ELSE IF token.alg # "HS256" THEN Raise("InvalidTokenError")
    ELSE IF token.key # key THEN Raise("InvalidTokenError")
    ELSE IF token.exp = "past" THEN Raise("ExpiredSignatureError")
    ELSE Ok(token.payload)

HttpError(status, detail) == [status |-> status, detail |-> detail]

verify_jwt_token_norolecheck(JWT_SECRET, credentials) ==
    IF JWT_SECRET = <<>> THEN HttpError(503, "Authentication system is not configured.")
    ELSE IF credentials = NoCred THEN HttpError(401, "Authorization header missing")
    ELSE LET dec == jwt_decode(credentials.credentials, JWT_SECRET)
         IN IF dec.ok THEN [status |-> 200, payload |-> dec.val]
            ELSE HttpError(401, "Invalid token")

verify_jwt_token_anonymous(JWT_SECRET, credentials) ==
    IF JWT_SECRET = <<>> THEN HttpError(503, "Authentication system is not configured.")
    ELSE IF credentials = NoCred THEN [status |-> 200, payload |-> [sub |-> "anonymous"]]
    ELSE LET dec == jwt_decode(credentials.credentials, JWT_SECRET)
         IN IF dec.ok
            THEN IF "id" \notin DOMAIN dec.val \/ Get(dec.val, "role", "None") # "TRAVELER"
                 THEN HttpError(403, "Invalid token or role")
                 ELSE [status |-> 200, payload |-> dec.val]
            ELSE HttpError(401, "Invalid token")

verify_jwt_token_nosecretcheck(JWT_SECRET, credentials) ==
    IF credentials = NoCred THEN HttpError(401, "Authorization header missing")
    ELSE LET dec == jwt_decode(credentials.credentials, JWT_SECRET)
         IN IF dec.ok
            THEN IF "id" \notin DOMAIN dec.val \/ Get(dec.val, "role", "None") # "TRAVELER"
                 THEN HttpError(403, "Invalid token or role")
                 ELSE [status |-> 200, payload |-> dec.val]
            ELSE HttpError(401, "Invalid token")

\* Dependency of plan(): the decoded payload (status 200) or an HTTPException
verify_jwt_token(JWT_SECRET, credentials) ==
    IF JWT_SECRET = <<>> THEN HttpError(503, "Authentication system is not configured.")
    ELSE IF credentials = NoCred THEN HttpError(401, "Authorization header missing")
    ELSE LET dec == jwt_decode(credentials.credentials, JWT_SECRET)
         IN IF dec.ok
            THEN IF "id" \notin DOMAIN dec.val \/ Get(dec.val, "role", "None") # "TRAVELER"
                 THEN HttpError(403, "Invalid token or role")
                 ELSE [status |-> 200, payload |-> dec.val]
            ELSE IF dec.exc = "ExpiredSignatureError"
                 THEN HttpError(401, "Token has expired")
                 ELSE HttpError(401, "Invalid token")

-----------------------------------------------------------------------------
(* Free-text heuristics: re.search / re.split as used by the service *)

Min(S) == CHOOSE x \in S : \A y \in S : x <= y
Max(S) == CHOOSE x \in S : \A y \in S : x >= y

\* text[i..] starts with w
StartsAt(text, i, w) ==
    i >= 1 /\ i + Len(w) - 1 <= Len(text) /\ SubSeq(text, i, i + Len(w) - 1) = w

AllIn(text, a, b, P(_)) == \A j \in a..b : P(text[j])
IsLocChar(c) == IsAlpha(c) \/ IsSpace(c)

ClauseWords == {<<"n","e","x","t">>, <<"t","h","i","s">>, <<"f","o","r">>, <<"w","i","t","h">>}

\* (?:\s+(?:next|this|for|with)|[,.;]) matches at position q
LocTail(text, q) ==
    \/ \E j \in 1..(Len(text) - q) :
          /\ AllIn(text, q, q + j - 1, IsSpace)
          /\ \E w \in ClauseWords : StartsAt(text, q + j, w)
    \/ q <= Len(text) /\ text[q] \in {",", ".", ";"}

\* in\s+([A-Za-z\s]+?)(?:...) matches at i with k blanks after "in" and a
\* group of g characters
LocMatchAt(text, i, k, g) ==
    /\ StartsAt(text, i, <<"i","n">>)
    /\ i + 1 + k + g <= Len(text)
    /\ AllIn(text, i + 2, i + 1 + k, IsSpace)
    /\ AllIn(text, i + 2 + k, i + 1 + k + g, IsLocChar)
    /\ LocTail(text, i + 2 + k + g)

\* re.search(r'in\s+([A-Za-z\s]+?)(?:\s+(?:next|this|for|with)|[,.;])', text)
\* group(1) of the leftmost match (\s+ greedy, the group lazy), or None
LocMatches(text, L) ==
    {t \in {i \in 1..L : StartsAt(text, i, <<"i","n">>)} \X (1..L) \X (1..L) :
        LocMatchAt(text, t[1], t[2], t[3])}
LocGroup(text, i, k, g) == SubSeq(text, i + 2 + k, i + 1 + k + g)
LocPickG(text, M, i, k) ==
    LocGroup(text, i, k, Min({t[3] : t \in {u \in M : u[1] = i /\ u[2] = k}}))
LocPickK(text, M, i) == LocPickG(text, M, i, Max({t[2] : t \in {u \in M : u[1] = i}}))
LocPick(text, M) == IF M = {} THEN None ELSE LocPickK(text, M, Min({t[1] : t \in M}))
LocSearch(text) == LocPick(text, LocMatches(text, Len(text)))

\* the separators of re.split(r',|;|\\band\\b', text): a comma, a semicolon,
\* or the seven characters \band\b (the pattern is a raw string with doubled
\* backslashes, so each \\ is a literal backslash)
AndLiteral == <<"\\","b","a","n","d","\\","b">>
SepLenAt(text, i) ==
    IF text[i] \in {",", ";"} THEN 1
    ELSE IF StartsAt(text, i, AndLiteral) THEN Len(AndLiteral)
    ELSE 0

\* where the leftmost separator at or after i starts; Len(text) + 1 when
\* there is none
NextSep(text, i) ==
    Min({k \in i..Len(text) : SepLenAt(text, k) > 0} \cup {Len(text) + 1})

\* the pieces of text[i..], j being where the next separator starts
RECURSIVE SplitFrom(_, _)
SplitAt(text, i, j) ==
    IF j > Len(text) THEN <<SubSeq(text, i, Len(text))>>
    ELSE <<SubSeq(text, i, j - 1)>> \o SplitFrom(text, j + SepLenAt(text, j))
SplitFrom(text, i) == SplitAt(text, i, NextSep(text, i))
re_split(text) == SplitFrom(text, 1)

\* [part.strip() for part in parts if part.strip()]
RECURSIVE StripNonEmpty(_)
StripNonEmpty(parts) ==
    IF parts = <<>> THEN <<>>
    ELSE (IF Strip(Head(parts)) # <<>> THEN <<Strip(Head(parts))>> ELSE <<>>)
         \o StripNonEmpty(Tail(parts))

\* int() of a run of decimal digits
RECURSIVE IntOf(_)
IntOf(ds) == IF ds = <<>> THEN 0 ELSE 10 * IntOf(SubSeq(ds, 1, Len(ds) - 1)) + DigitVal(ds[Len(ds)])

\* re.search(r'(\d+)\s+(kid|kids|child|children)', lowered): int(group(1)) of
\* the leftmost match, or -1 when there is none
KidsMatchAt(text, i, n, k) ==
    /\ i + n + k - 1 <= Len(text)
    /\ AllIn(text, i, i + n - 1, IsDigit)
    /\ AllIn(text, i + n, i + n + k - 1, IsSpace)
    /\ \/ StartsAt(text, i + n + k, <<"k","i","d">>)
       \/ StartsAt(text, i + n + k, <<"c","h","i","l","d">>)
KidsMatches(text, L) ==
    {t \in {i \in 1..L : IsDigit(text[i])} \X (1..L) \X (1..L) :
        KidsMatchAt(text, t[1], t[2], t[3])}
KidsPickN(text, M, i) ==
    IntOf(SubSeq(text, i, i + Max({t[2] : t \in {u \in M : u[1] = i}}) - 1))
KidsPick(text, M) == IF M = {} THEN -1 ELSE KidsPickN(text, M, Min({t[1] : t \in M}))
KidsSearch(text) == KidsPick(text, KidsMatches(text, Len(text)))

-----------------------------------------------------------------------------
(* Preference values: a str is [str |-> s], a list is [list |-> l], a
   missing key or None is PyNone *)

PyNone == [None |-> TRUE]
PyStr(s) == [str |-> s]
PyList(l) == [list |-> l]
EmptyDict == [k \in {} |-> PyNone]

\* bool(v) of a preference value
PyTruthy(v) ==
    IF "str" \in DOMAIN v THEN v.str # <<>>
    ELSE IF "list" \in DOMAIN v THEN v.list # <<>>
    ELSE IF "dict" \in DOMAIN v THEN DOMAIN v.dict # {}
    ELSE FALSE

\* bool(s) of an Optional[str]
Truthy(s) == s # None /\ s # <<>>

\* list(dict.fromkeys(xs)): first occurrences, in order
RECURSIVE Dedup(_)
Dedup(xs) ==
    IF xs = <<>> THEN <<>>
    ELSE LET init == Dedup(SubSeq(xs, 1, Len(xs) - 1))
             x == xs[Len(xs)]
         IN IF x \in SeqRange(init) THEN init ELSE Append(init, x)

\* the loop body of normalize_dietary_filters for one item
NormalizeItem(item) ==
    LET val == Lower(Strip(item))
    IN IF val \in {<<"g","l","u","t","e","n"," ","f","r","e","e">>, <<"g","l","u","t","e","n","-","f","r","e","e">>} THEN <<"g","l","u","t","e","n","-","f","r","e","e">> ELSE val

RECURSIVE NormalizeLoop(_)
NormalizeLoop(values) ==
    IF values = <<>> THEN <<>>
    ELSE LET val == NormalizeItem(Head(values))
         IN (IF val = <<>> THEN <<>> ELSE <<val>>) \o NormalizeLoop(Tail(values))

normalize_dietary_filters_nodedup(pref_value, inferred) ==
    LET source == IF "str" \in DOMAIN pref_value THEN <<pref_value.str>>
                  ELSE IF "list" \in DOMAIN pref_value THEN pref_value.list
                  ELSE <<>>
    IN NormalizeLoop(source \o inferred)

\* inferred: a list, <<>> when the argument is omitted or None
normalize_dietary_filters(pref_value, inferred) ==
    LET source == IF "str" \in DOMAIN pref_value THEN <<pref_value.str>>
                  ELSE IF "list" \in DOMAIN pref_value THEN pref_value.list
                  ELSE <<>>
        values == source \o inferred
    IN Dedup(NormalizeLoop(values))

-----------------------------------------------------------------------------
(* infer_context_from_free_text *)

\* date.weekday(): Monday is 0
Weekday(n) == (n + 6) % 7

AnyIn(text, terms) == \E t \in terms : Contains(text, t)

\* interest_keywords, in dict order
InterestKeywords ==
    << <<<<"m","u","s","e","u","m">>, <<"m","u","s","e","u","m","s">>>>, <<<<"a","r","t">>, <<"a","r","t">>>>, <<<<"f","o","o","d">>, <<"f","o","o","d">>>>,
       <<<<"p","a","r","k">>, <<"p","a","r","k","s">>>>, <<<<"h","i","k","e">>, <<"h","i","k","i","n","g">>>>, <<<<"b","e","a","c","h">>, <<"b","e","a","c","h">>>>,
       <<<<"h","i","s","t","o","r","y">>, <<"h","i","s","t","o","r","y">>>>, <<<<"m","u","s","i","c">>, <<"m","u","s","i","c">>>> >>

RECURSIVE InterestLoop(_, _, _)
InterestLoop(lowered, interests, i) ==
    IF i > Len(InterestKeywords) THEN interests
    ELSE LET keyword == InterestKeywords[i][1]
             normalized == InterestKeywords[i][2]
         IN InterestLoop(lowered,
                         IF Contains(lowered, keyword) /\ normalized \notin SeqRange(interests)
                         THEN Append(interests, normalized) ELSE interests,
                         i + 1)

DietaryTags ==
    <<<<"v","e","g","a","n">>, <<"v","e","g","e","t","a","r","i","a","n">>, <<"g","l","u","t","e","n","-","f","r","e","e">>, <<"g","l","u","t","e","n"," ","f","r","e","e">>, <<"h","a","l","a","l">>, <<"k","o","s","h","e","r">>>>

RECURSIVE DietaryLoop(_, _)
DietaryLoop(lowered, i) ==
    IF i > Len(DietaryTags) THEN <<>>
    ELSE LET tag == DietaryTags[i]
         IN (IF Contains(lowered, tag)
             THEN <<IF Contains(tag, <<"g","l","u","t","e","n">>) THEN <<"g","l","u","t","e","n","-","f","r","e","e">> ELSE tag>>
             ELSE <<>>) \o DietaryLoop(lowered, i + 1)

\* fragments[0] if fragments else None
FirstFragment(fragments) == IF fragments # <<>> THEN fragments[1] ELSE None
LocationOr(location, text) ==
    IF Truthy(location) THEN location ELSE FirstFragment(StripNonEmpty(re_split(text)))
StripGroup(m) == IF m # None THEN Strip(m) ELSE None

\* location of the derived context, None when nothing could be inferred
InferLocation(text) == LocationOr(StripGroup(LocSearch(text)), text)

InferStartDate_default(lowered, today) == today + 3

\* start_date of the derived context, before preferences.dates is applied
InferStartDate(lowered, today) ==
    IF Contains(lowered, <<"n","e","x","t"," ","w","e","e","k">>) THEN today + 7
    ELSE IF Contains(lowered, <<"t","h","i","s"," ","w","e","e","k","e","n","d">>) \/ Contains(lowered, <<"w","e","e","k","e","n","d">>)
         THEN today + ((4 - Weekday(today)) % 7)
    ELSE IF Contains(lowered, <<"t","o","m","o","r","r","o","w">>) THEN today + 1
    ELSE today + 3

InferDuration_fixed(lowered) == 3

InferDuration(lowered) == IF Contains(lowered, <<"w","e","e","k">>) THEN 7 ELSE 3

KidsOr(n, lowered) ==
    IF n >= 0 THEN n
    ELSE IF Contains(lowered, <<"k","i","d","s">>)
            \/ Contains(lowered, <<"c","h","i","l","d","r","e","n">>) THEN 2
    ELSE 0
InferKids(lowered) == KidsOr(KidsSearch(lowered), lowered)

InferBudget(lowered, budget) ==
    IF PyTruthy(budget) THEN budget
    ELSE IF AnyIn(lowered, {<<"l","o","w"," ","b","u","d","g","e","t">>, <<"b","u","d","g","e","t">>, <<"c","h","e","a","p">>, <<"a","f","f","o","r","d","a","b","l","e">>})
         THEN PyStr(<<"l","o","w">>)
    ELSE IF AnyIn(lowered, {<<"l","u","x","u","r","y">>, <<"h","i","g","h","-","e","n","d">>, <<"s","p","l","u","r","g","e">>, <<"p","r","e","m","i","u","m">>})
         THEN PyStr(<<"h","i","g","h">>)
    ELSE PyStr(<<"m","i","d">>)

\* preferences.get('dates') when it is a dict, else {}
DictOr(v) == IF "dict" \in DOMAIN v THEN v.dict ELSE EmptyDict
PrefDates(base_preferences) == DictOr(Get(base_preferences, "dates", PyNone))

\* v or fallback
StrOrElse(v, fallback) == IF Truthy(v) THEN v ELSE fallback
\* pref_dates.get(k) or fallback
DateOr(pref_dates, k, fallback) == StrOrElse(Get(pref_dates, k, None), fallback)

\* interests = base_preferences.get('interests') or []
ListOr(given) == IF PyTruthy(given) THEN given.list ELSE <<>>

\* the list object `interests` after the keyword loop; when the caller
\* supplied a non-empty list it is that same list object, appended to in place
InferInterests(lowered, base_preferences) ==
    InterestLoop(lowered, ListOr(Get(base_preferences, "interests", PyNone)), 1)

InferPartyType(lowered, kids) ==
    IF kids > 0 \/ Contains(lowered, <<"f","a","m","i","l","y">>) THEN <<"f","a","m","i","l","y">>
    ELSE IF Contains(lowered, <<"f","r","i","e","n","d","s">>) THEN <<"f","r","i","e","n","d","s">>
    ELSE <<"c","o","u","p","l","e">>

MobilityTerms ==
    {<<"w","h","e","e","l","c","h","a","i","r">>, <<"s","t","r","o","l","l","e","r">>,
     <<"n","o"," ","l","o","n","g"," ","h","i","k","e">>, <<"n","o"," ","h","i","k","e","s">>,
     <<"a","c","c","e","s","s","i","b","l","e">>}

\* lines 226-273, the text, its lower-case form, the anchored start date, the
\* duration, preferences.dates and the kid count being computed
DerivedContext(text, lowered, start_date, duration, pref_dates, kids, base_preferences) ==
    [location |-> InferLocation(text),
     dates |-> [start |-> DateOr(pref_dates, "start", strftime(start_date)),
                end |-> DateOr(pref_dates, "end", strftime(start_date + duration - 1))],
     guests |-> kids + 2,
     kids |-> kids,
     party_type |-> InferPartyType(lowered, kids),
     budget |-> InferBudget(lowered, Get(base_preferences, "budget", PyNone)),
     interests |-> InferInterests(lowered, base_preferences),
     dietary |-> DietaryLoop(lowered, 1),
     easy_mobility |-> AnyIn(lowered, MobilityTerms)]

InferFromLowered(text, lowered, base_preferences, today) ==
    DerivedContext(text, lowered, InferStartDate(lowered, today), InferDuration(lowered),
                   PrefDates(base_preferences), InferKids(lowered), base_preferences)

InferFromText(text, base_preferences, today) ==
    InferFromLowered(text, Lower(text), base_preferences, today)

\* the derived dict; {} (EmptyDict) for an empty text
infer_context_from_free_text(free_text, base_preferences, today) ==
    IF ~Truthy(free_text) THEN EmptyDict
    ELSE InferFromText(Strip(free_text), base_preferences, today)

\* base_preferences after the call: a caller-supplied non-empty interests list
\* has been extended in place by the keyword loop
PrefsAfterInfer(free_text, base_preferences) ==
    IF Truthy(free_text) /\ PyTruthy(Get(base_preferences, "interests", PyNone))
    THEN [base_preferences EXCEPT
             !["interests"] = PyList(InferInterests(Lower(Strip(free_text)), base_preferences))]
    ELSE base_preferences

-----------------------------------------------------------------------------
(* Response Assembler *)

\* mapping.get((budget or 'mid').lower(), '$$')
price_tier_from_budget(budget) ==
    LET b == Lower(IF Truthy(budget) THEN budget ELSE <<"m","i","d">>)
    IN IF b \in {<<"l","o","w">>, <<"b","u","d","g","e","t">>} THEN <<"$">>
       ELSE IF b \in {<<"m","i","d">>, <<"m","e","d","i","u","m">>, <<"s","t","a","n","d","a","r","d">>} THEN <<"$","$">>
       ELSE IF b \in {<<"h","i","g","h">>, <<"p","r","e","m","i","u","m">>} THEN <<"$","$","$">>
       ELSE <<"$","$">>

segments == <<<<"m","o","r","n","i","n","g">>, <<"a","f","t","e","r","n","o","o","n">>, <<"e","v","e","n","i","n","g">>>>

\* descriptions.get(interest_lower, <generic>): the texts are opaque
ActivityDescription(interest_lower) ==
    IF interest_lower = <<"f","o","o","d">> THEN "Guided tasting of local bites and markets."
    ELSE IF interest_lower = <<"m","u","s","e","u","m","s">> THEN "Curated visits with timed entry to avoid lines."
    ELSE IF interest_lower = <<"p","a","r","k","s">> THEN "Open-air time with shaded rest areas."
    ELSE IF interest_lower = <<"a","r","c","h","i","t","e","c","t","u","r","e">> THEN "Self-guided walk covering iconic landmarks."
    ELSE IF interest_lower = <<"b","e","a","c","h">> THEN "Seaside relaxation with accessible boardwalk."
    ELSE IF interest_lower = <<"h","i","s","t","o","r","y">> THEN "Story-led walk with expert guide."
    ELSE IF interest_lower = <<"m","u","s","i","c">> THEN "Live performance with reserved seating."
    ELSE IF interest_lower = <<"h","i","k","i","n","g">> THEN "Gentle trail with lookout points."
    ELSE "Immersive local experience tailored by the concierge agent."

ActivityTitle(interest, daypart) ==
    IF daypart = <<"m","o","r","n","i","n","g">> THEN Title(interest) \o <<" ","k","i","c","k","-","o","f","f">>
    ELSE IF daypart = <<"a","f","t","e","r","n","o","o","n">> THEN <<"D","e","e","p"," ","d","i","v","e"," ","i","n","t","o"," ">> \o interest
    ELSE IF daypart = <<"e","v","e","n","i","n","g">> THEN Title(interest) \o <<" ","w","i","n","d","-","d","o","w","n">>
    ELSE Title(interest) \o <<" ","e","x","p","e","r","i","e","n","c","e">>

build_activity_card_flat(location, interest, daypart, price_tier, accessible, kid_friendly) ==
    LET interest_lower == Lower(IF Truthy(interest) THEN interest ELSE <<"l","o","c","a","l"," ","c","u","l","t","u","r","e">>)
    IN [title |-> ActivityTitle(interest, daypart),
        address |-> location \o <<" ","-"," ">> \o Title(interest) \o <<" ","d","i","s","t","r","i","c","t">>,
        priceTier |-> price_tier,
        durationMinutes |-> 120,
        tags |-> {interest_lower, daypart, <<"l","o","c","a","l","-","e","x","p","e","r","i","e","n","c","e">>},
        wheelchairFriendly |->
            accessible \/ interest_lower \in {<<"f","o","o","d">>, <<"m","u","s","e","u","m","s">>, <<"p","a","r","k","s">>, <<"h","i","s","t","o","r","y">>, <<"m","u","s","i","c">>},
        kidFriendly |->
            kid_friendly \/ interest_lower \in {<<"p","a","r","k","s">>, <<"f","o","o","d">>, <<"m","u","s","i","c">>, <<"b","e","a","c","h">>},
        description |-> ActivityDescription(interest_lower)]

\* tags is sorted({...}) in the code: the model keeps the set
build_activity_card(location, interest, daypart, price_tier, accessible, kid_friendly) ==
    LET interest_lower == Lower(IF Truthy(interest) THEN interest ELSE <<"l","o","c","a","l"," ","c","u","l","t","u","r","e">>)
    IN [title |-> ActivityTitle(interest, daypart),
        address |-> location \o <<" ","-"," ">> \o Title(interest) \o <<" ","d","i","s","t","r","i","c","t">>,
        priceTier |-> price_tier,
        durationMinutes |-> IF daypart # <<"e","v","e","n","i","n","g">> THEN 120 ELSE 150,
        tags |-> {interest_lower, daypart, <<"l","o","c","a","l","-","e","x","p","e","r","i","e","n","c","e">>},
        wheelchairFriendly |->
            accessible \/ interest_lower \in {<<"f","o","o","d">>, <<"m","u","s","e","u","m","s">>, <<"p","a","r","k","s">>, <<"h","i","s","t","o","r","y">>, <<"m","u","s","i","c">>},
        kidFriendly |->
            kid_friendly \/ interest_lower \in {<<"p","a","r","k","s">>, <<"f","o","o","d">>, <<"m","u","s","i","c">>, <<"b","e","a","c","h">>},
        description |-> ActivityDescription(interest_lower)]

\* the body of the for loop of build_day_plans; idx counts from 0
DayPlanAt(idx, day, location, interests, price_tier, accessible, kid_friendly) ==
    LET interest == interests[(idx % Len(interests)) + 1]
    IN [day |-> day,
        theme |-> Title(interest),
        summary |-> <<"F","o","c","u","s"," ","o","n"," ">> \o interest \o <<" ","h","i","g","h","l","i","g","h","t","s"," ","i","n"," ">> \o location \o <<".">>,
        activities |->
            [j \in 1..3 |->
                build_activity_card(location, interest, segments[j], price_tier,
                                    accessible, kid_friendly)]]

build_day_plans_nocycle(days, location, interests, budget, accessible, kid_friendly) ==
    LET ints == IF interests # <<>> THEN interests ELSE <<<<"l","o","c","a","l"," ","c","u","l","t","u","r","e">>>>
        price_tier == price_tier_from_budget(budget)
    IN [i \in 1..Len(days) |->
           DayPlanAt(IF i <= Len(ints) THEN i - 1 ELSE 0, days[i], location, ints,
                     price_tier, accessible, kid_friendly)]

build_day_plans(days, location, interests, budget, accessible, kid_friendly) ==
    LET ints == IF interests # <<>> THEN interests ELSE <<<<"l","o","c","a","l"," ","c","u","l","t","u","r","e">>>>
        price_tier == price_tier_from_budget(budget)
    IN [i \in 1..Len(days) |->
           DayPlanAt(i - 1, days[i], location, ints, price_tier, accessible, kid_friendly)]

\* title.split('|')[0]
RECURSIVE BeforeBar(_)
BeforeBar(s) ==
    IF s = <<>> \/ Head(s) = "|" THEN <<>> ELSE <<Head(s)>> \o BeforeBar(Tail(s))

RestaurantFromResult(item, location, price_tier, dietary_filters, accessible, kid_friendly) ==
    [name |-> Strip(BeforeBar(item.title)),
     address |-> location,
     priceTier |-> price_tier,
     dietaryOptions |-> dietary_filters,
     tags |-> <<<<"r","e","s","t","a","u","r","a","n","t">>, <<"l","o","c","a","l">>>> \o dietary_filters,
     wheelchairFriendly |-> accessible,
     kidFriendly |-> kid_friendly,
     sourceUrl |-> item.url,
     summary |-> item.snippet]

StaticRestaurant(location, price_tier, dietary_filters, accessible, kid_friendly) ==
    [name |-> IF <<"v","e","g","a","n">> \in SeqRange(dietary_filters)
              THEN <<"P","l","a","n","t","-","B","a","s","e","d"," ","K","i","t","c","h","e","n">> ELSE <<"C","h","e","f","'","s"," ","T","a","b","l","e">>,
     address |-> location \o <<" ","c","i","t","y"," ","c","e","n","t","e","r">>,
     priceTier |-> price_tier,
     dietaryOptions |-> dietary_filters,
     tags |-> <<<<"r","e","s","t","a","u","r","a","n","t">>>> \o dietary_filters,
     wheelchairFriendly |-> accessible,
     kidFriendly |-> kid_friendly,
     sourceUrl |-> None,
     summary |-> <<"C","u","r","a","t","e","d"," ","o","p","t","i","o","n"," ","t","h","a","t"," ","m","e","e","t","s"," ","t","h","e"," ","r","e","q","u","e","s","t","e","d"," ","d","i","e","t","a","r","y"," ","f","i","l","t","e","r","s",".">>]

build_restaurant_recommendations_nofallback(location, dietary_filters, budget, accessible, kid_friendly, tavily_results) ==
    LET price_tier == price_tier_from_budget(budget)
        filters == IF dietary_filters # <<>> THEN dietary_filters ELSE <<<<"g","e","n","e","r","a","l">>>>
        first3 == Prefix(tavily_results, 3)
    IN [i \in 1..Len(first3) |->
           RestaurantFromResult(first3[i], location, price_tier, filters, accessible, kid_friendly)]

build_restaurant_recommendations(location, dietary_filters, budget, accessible, kid_friendly, tavily_results) ==
    LET price_tier == price_tier_from_budget(budget)
        filters == IF dietary_filters # <<>> THEN dietary_filters ELSE <<<<"g","e","n","e","r","a","l">>>>
        first3 == Prefix(tavily_results, 3)
        recs == [i \in 1..Len(first3) |->
                    RestaurantFromResult(first3[i], location, price_tier, filters,
                                         accessible, kid_friendly)]
    IN IF recs # <<>> THEN recs
       ELSE <<StaticRestaurant(location, price_tier, filters, accessible, kid_friendly)>>

\* [activity for plan in day_plans for activity in plan['activities']]
RECURSIVE flatten_activity_cards(_)
flatten_activity_cards(day_plans) ==
    IF day_plans = <<>> THEN <<>>
    ELSE Head(day_plans).activities \o flatten_activity_cards(Tail(day_plans))

generate_legacy_itinerary(day_plans) ==
    [i \in 1..Len(day_plans) |->
        LET activities == day_plans[i].activities
        IN [day |-> day_plans[i].day,
            morning |-> IF Len(activities) > 0 THEN <<activities[1].title>> ELSE <<>>,
            afternoon |-> IF Len(activities) > 1 THEN <<activities[2].title>> ELSE <<>>,
            evening |-> IF Len(activities) > 2 THEN <<activities[3].title>> ELSE <<>>]]

-----------------------------------------------------------------------------
(* External collaborators: the booking store, the generation backend, the
   search backend *)

HexChars == DigitSet \cup {"a", "b", "c", "d", "e", "f", "A", "B", "C", "D", "E", "F"}
ObjectIdLen == 24

\* ObjectId(s) succeeds
ValidObjectId(s) == Len(s) = ObjectIdLen /\ \A i \in 1..Len(s) : s[i] \in HexChars

KnownId == Rep("a", ObjectIdLen)
BareId == Rep("c", ObjectIdLen)
UnknownId == Rep("b", ObjectIdLen)
BadId == <<"n","o","t","-","a","n","-","o","b","j","e","c","t","-","i","d">>
PropertyId == Rep("d", ObjectIdLen)

\* database.bookings: a booking with a property and dates, and one with neither
StoredBookings ==
    (KnownId :> [propertyId |-> PropertyId,
                 startDate |-> <<"2","0","2","4","-","0","3","-","1","0"," ","0","0",":","0","0",":","0","0">>,
                 endDate |-> <<"2","0","2","4","-","0","3","-","1","2"," ","0","0",":","0","0",":","0","0">>,
                 guests |-> 3, party |-> <<"f","a","m","i","l","y">>, kids |-> 1])
    @@ (BareId :> [guests |-> 4])

\* database.properties
StoredProperties ==
    (PropertyId :> [city |-> <<"L","i","s","b","o","n">>, country |-> <<"P","o","r","t","u","g","a","l">>, name |-> <<"C","a","s","a"," ","A","z","u","l">>])

fetch_booking_context_noprop(booking_id, dbUp) ==
    IF ~ValidObjectId(booking_id) \/ ~dbUp THEN NoneDict
    ELSE IF booking_id \notin DOMAIN StoredBookings THEN NoneDict
    ELSE StoredBookings[booking_id]

\* dbUp: whether the store answers (a failing find_one raises, and the
\* except clause returns None)
WithProperty(booking, property_id) ==
    IF Truthy(property_id) /\ property_id \in DOMAIN StoredProperties
    THEN booking @@ [city |-> Get(StoredProperties[property_id], "city", None),
                     country |-> Get(StoredProperties[property_id], "country", None),
                     title |-> Get(StoredProperties[property_id], "name",
                                   Get(StoredProperties[property_id], "title", None))]
    ELSE booking
fetch_booking_context(booking_id, dbUp) ==
    IF ~ValidObjectId(booking_id) \/ ~dbUp THEN NoneDict
    ELSE IF booking_id \notin DOMAIN StoredBookings THEN NoneDict
    ELSE WithProperty(StoredBookings[booking_id],
                      Get(StoredBookings[booking_id], "propertyId", None))

\* JSON values the generation backend's text may parse to
MaxLlmDays == 2
LlmDay(i) == [day |-> <<"d","a","y"," ">> \o <<DigitChar(i)>>, morning |-> <<<<"l","l","m">>>>,
              afternoon |-> <<<<"l","l","m">>>>, evening |-> <<<<"l","l","m">>>>]
JsonArray(n) == [t |-> "array", items |-> [i \in 1..n |-> LlmDay(i)]]
JsonObject(n) == [t |-> "object", n |-> n]
JsonString(n) == [t |-> "string", n |-> n]
JsonNumber(v) == [t |-> "number", v |-> v]
JsonBool(b) == [t |-> "bool", b |-> b]
JsonNull == [t |-> "null"]
NoParse == [t |-> "error"]
NoMatch == [t |-> "nomatch"]

JsonValues ==
    {JsonArray(n) : n \in 0..MaxLlmDays}
    \cup {JsonObject(0), JsonObject(1), JsonString(0), JsonString(1),
          JsonNumber(0), JsonNumber(5), JsonBool(TRUE), JsonBool(FALSE), JsonNull}

\* What llm.invoke does: it raises, or it returns text; `whole` is what
\* json.loads(raw_text) gives, `bracket` what json.loads gives on the first
\* "[...]" substring (NoMatch when the text has no such substring)
LlmOutcomes ==
    {[raises |-> TRUE]}
    \cup {[raises |-> FALSE, whole |-> w, bracket |-> NoMatch] : w \in JsonValues \cup {NoParse}}
    \cup {[raises |-> FALSE, whole |-> NoParse, bracket |-> b] :
             b \in {JsonArray(n) : n \in 0..MaxLlmDays} \cup {NoParse}}

generate_itinerary_raises(outcome) ==
    IF outcome.raises THEN NoParse
    ELSE IF outcome.whole # NoParse THEN outcome.whole
    ELSE IF outcome.bracket # NoMatch /\ outcome.bracket # NoParse THEN outcome.bracket
    ELSE NoParse

\* core.llm.generate_itinerary: the parsed value, [] on every failure
generate_itinerary(outcome) ==
    IF outcome.raises THEN JsonArray(0)
    ELSE IF outcome.whole # NoParse THEN outcome.whole
    ELSE IF outcome.bracket # NoMatch /\ outcome.bracket # NoParse THEN outcome.bracket
    ELSE JsonArray(0)

\* bool(v) of a JSON value
JsonTruthy(v) ==
    IF v.t = "array" THEN v.items # <<>>
    ELSE IF v.t \in {"object", "string"} THEN v.n > 0
    ELSE IF v.t = "number" THEN v.v # 0
    ELSE IF v.t = "bool" THEN v.b
    ELSE FALSE

\* len(v) is defined
JsonSized(v) == v.t \in {"array", "object", "string"}

\* Results the search backend may return
MaxSearchResults == 6
SearchSizes == {0, 1, 3, MaxSearchResults}
BackendItem(i) ==
    IF i = 2 THEN [url |-> <<"h","t","t","p",":","/","/","x","/">> \o <<DigitChar(i)>>, content |-> <<"s","n","i","p","p","e","t">>]
    ELSE [title |-> <<" ","P","l","a","c","e"," ">> \o <<DigitChar(i)>> \o <<" ","|"," ","G","u","i","d","e">>,
          url |-> <<"h","t","t","p",":","/","/","x","/">> \o <<DigitChar(i)>>, content |-> <<"s","n","i","p","p","e","t">>]

\* What requests.post(...) and resp.json() do: a RequestException (transport
\* error, timeout, error status), or a JSON payload that is
\* an object with a 'results' list, an object without one, or not an object
SearchOutcomes ==
    {[kind |-> "request_exception"], [kind |-> "no_results_key"], [kind |-> "not_an_object"]}
    \cup {[kind |-> "results", n |-> n] : n \in SearchSizes}

SearchItem(item) ==
    [title |-> Get(item, "title", <<>>), url |-> Get(item, "url", <<>>),
     snippet |-> Get(item, "content", <<>>)]

tavily_search_propagate(TAVILY_API_KEY, outcome) ==
    IF TAVILY_API_KEY = <<>> THEN Ok(<<>>)
    ELSE IF outcome.kind = "request_exception" THEN Raise("RequestException")
    ELSE IF outcome.kind = "not_an_object" THEN Raise("AttributeError")
    ELSE IF outcome.kind = "no_results_key" THEN Ok(<<>>)
    ELSE Ok([i \in 1..outcome.n |-> SearchItem(BackendItem(i))])

\* tavily_search: only requests.RequestException is caught
tavily_search(TAVILY_API_KEY, outcome) ==
    IF TAVILY_API_KEY = <<>> THEN Ok(<<>>)
    ELSE IF outcome.kind = "request_exception" THEN Ok(<<>>)
    ELSE IF outcome.kind = "not_an_object" THEN Raise("AttributeError")
    ELSE IF outcome.kind = "no_results_key" THEN Ok(<<>>)
    ELSE Ok([i \in 1..outcome.n |-> SearchItem(BackendItem(i))])

-----------------------------------------------------------------------------
(* plan(): the request handler, cut at its external calls *)

InternalServerError == [status |-> 500, detail |-> "Internal Server Error"]

\* ', '.join(filter(None, [city, country]))
JoinLocation(city, country) ==
    Join(<<","," ">>, (IF Truthy(city) THEN <<city>> ELSE <<>>)
                \o (IF Truthy(country) THEN <<country>> ELSE <<>>))

\* lines 429-440: the stored-booking branch, ctx being the fetched record
StoredDate(date, default) == IF Truthy(date) THEN Prefix(date, 10) ELSE strftime(default)
ContextFromStored(ctx, today) ==
       [location |-> JoinLocation(Get(ctx, "city", None), Get(ctx, "country", None)),
        start |-> StoredDate(Get(ctx, "startDate", None), today + 1),
        end |-> StoredDate(Get(ctx, "endDate", None), today + 3),
        guests |-> Get(ctx, "guests", 2),
        party_type |-> Get(ctx, "party", <<"c","o","u","p","l","e">>),
        kids |-> Get(ctx, "kids", 0)]

\* x or y for integers
IntOr(x, y) == IF x # 0 THEN x ELSE y

\* lines 441-449: the inline-booking branch
\* lines 442-449, dates and party being booking.get('dates', {}) and
\* booking.get('party') or {}
InlineContext(booking, dates, party, today) ==
    [location |-> Get(booking, "location", <<"S","a","n"," ","J","o","s","e",","," ","U","S","A">>),
     start |-> Prefix(Get(dates, "start", strftime(today + 1)), 10),
     end |-> Prefix(Get(dates, "end", strftime(today + 3)), 10),
     guests |-> Get(booking, "guests", 2),
     party_type |-> Get(party, "type", <<"c","o","u","p","l","e">>),
     kids |-> IntOr(Get(party, "kids", 0), IntOr(Get(booking, "kids", 0), 0))]
ContextFromInline(booking, today) ==
    InlineContext(booking, Get(booking, "dates", EmptyDict), Get(booking, "party", EmptyDict), today)

\* dict.setdefault(k, v)
SetDefault(d, k, v) == IF k \in DOMAIN d THEN d ELSE d @@ (k :> v)
\* d[k] = v
SetKey(d, k, v) == IF k \in DOMAIN d THEN [d EXCEPT ![k] = v] ELSE d @@ (k :> v)

\* lines 461-466: req.preferences after the derived values are folded in
SetMobility(p, easy_mobility) ==
    IF easy_mobility THEN SetKey(p, "mobility", PyStr(<<"w","h","e","e","l","c","h","a","i","r">>))
    ELSE p
FoldDerived(preferences, derived) ==
    SetMobility(
        SetDefault(
            SetDefault(
                SetDefault(preferences, "interests", PyList(derived.interests)),
                "budget", derived.budget),
            "dietary", PyList(derived.dietary)),
        derived.easy_mobility)

\* lines 452-466, derived being what infer_context_from_free_text returned
ContextFromDerived(derived, free_text, preferences) ==
    IF ~Truthy(Get(derived, "location", None))
    THEN Raise(HttpError(400, "Unable to infer location from request. Please include city or booking details."))
    ELSE Ok([location |-> derived.location,
             start |-> derived.dates.start,
             end |-> derived.dates.end,
             guests |-> derived.guests,
             party_type |-> derived.party_type,
             kids |-> derived.kids,
             derived_from_free_text |-> TRUE,
             preferences |-> FoldDerived(PrefsAfterInfer(free_text, preferences), derived)])

\* lines 450-466: the free-text branch; an HTTP 400 when no location is found
ContextFromFreeText(free_text, preferences, today) ==
    ContextFromDerived(infer_context_from_free_text(free_text, preferences, today),
                       free_text, preferences)

\* lines 430-440, ctx being what fetch_booking_context returned
StoredBranch(ctx, r, today) ==
    IF ctx = NoneDict \/ DOMAIN ctx = {}
    THEN Raise(HttpError(404, "Booking not found"))
    ELSE Ok(ContextFromStored(ctx, today)
            @@ [derived_from_free_text |-> FALSE, preferences |-> r.preferences])

ResolveContext_textfirst(r, today, dbUp) ==
    IF Truthy(r.free_text)
    THEN ContextFromFreeText(r.free_text, r.preferences, today)
    ELSE IF Truthy(r.bookingId)
    THEN StoredBranch(fetch_booking_context(r.bookingId, dbUp), r, today)
    ELSE IF r.booking # NoneDict /\ DOMAIN r.booking # {}
    THEN Ok(ContextFromInline(r.booking, today)
            @@ [derived_from_free_text |-> FALSE, preferences |-> r.preferences])
    ELSE Raise(HttpError(400, "Either bookingId or booking object is required"))

FallThrough(ctx, r, today) ==
    IF ctx # NoneDict /\ DOMAIN ctx # {}
    THEN Ok(ContextFromStored(ctx, today)
            @@ [derived_from_free_text |-> FALSE, preferences |-> r.preferences])
    ELSE IF r.booking # NoneDict /\ DOMAIN r.booking # {}
    THEN Ok(ContextFromInline(r.booking, today)
            @@ [derived_from_free_text |-> FALSE, preferences |-> r.preferences])
    ELSE IF Truthy(r.free_text)
    THEN ContextFromFreeText(r.free_text, r.preferences, today)
    ELSE Raise(HttpError(400, "Either bookingId or booking object is required"))
ResolveContext_fallthrough(r, today, dbUp) ==
    FallThrough(IF Truthy(r.bookingId) THEN fetch_booking_context(r.bookingId, dbUp)
                ELSE NoneDict, r, today)

ResolveContext_nocheck(r, today, dbUp) ==
    IF Truthy(r.bookingId)
    THEN StoredBranch(fetch_booking_context(r.bookingId, dbUp), r, today)
    ELSE IF r.booking # NoneDict /\ DOMAIN r.booking # {}
    THEN Ok(ContextFromInline(r.booking, today)
            @@ [derived_from_free_text |-> FALSE, preferences |-> r.preferences])
    ELSE IF Truthy(r.free_text)
    THEN ContextFromFreeText(r.free_text, r.preferences, today)
    ELSE Ok(ContextFromInline(EmptyDict, today)
            @@ [derived_from_free_text |-> FALSE, preferences |-> r.preferences])

\* lines 428-468: the resolved context and preference set, or an HTTPException
ResolveContext(r, today, dbUp) ==
    IF Truthy(r.bookingId)
    THEN StoredBranch(fetch_booking_context(r.bookingId, dbUp), r, today)
    ELSE IF r.booking # NoneDict /\ DOMAIN r.booking # {}
    THEN Ok(ContextFromInline(r.booking, today)
            @@ [derived_from_free_text |-> FALSE, preferences |-> r.preferences])
    ELSE IF Truthy(r.free_text)
    THEN ContextFromFreeText(r.free_text, r.preferences, today)
    ELSE Raise(HttpError(400, "Either bookingId or booking object is required"))

\* v or default for a preference holding a str
StrOr(v, default) == IF PyTruthy(v) THEN v.str ELSE default

\* lines 470-479: the normalized preference set
NormalizePreferences(r, ctx) ==
    LET prefs == ctx.preferences
        given == Get(prefs, "interests", PyNone)
        mobility_pref == Lower(StrOr(Get(prefs, "mobility", PyNone), <<>>))
        text == Lower(IF Truthy(r.free_text) THEN r.free_text ELSE <<>>)
    IN [requested_dietary |-> normalize_dietary_filters(Get(prefs, "dietary", PyNone), <<>>),
        interests |-> IF PyTruthy(given) THEN given.list ELSE <<<<"m","u","s","e","u","m","s">>, <<"p","a","r","k","s">>>>,
        budget |-> Lower(StrOr(Get(prefs, "budget", PyNone), <<"m","i","d">>)),
        easy_mobility |->
            \/ AnyIn(text, {<<"w","h","e","e","l","c","h","a","i","r">>, <<"s","t","r","o","l","l","e","r">>, <<"n","o"," ","h","i","k","e">>, <<"n","o"," ","l","o","n","g"," ","h","i","k","e">>})
            \/ Contains(mobility_pref, <<"w","h","e","e","l","c","h","a","i","r">>)
            \/ Contains(mobility_pref, <<"a","c","c","e","s","s","i","b","l","e">>),
        kid_friendly |-> Lower(ctx.party_type) = <<"f","a","m","i","l","y">> \/ ctx.kids > 0]

\* location.split(",")[0]
BeforeComma(s) ==
    SubSeq(s, 1, Min({i \in 1..Len(s) : s[i] = ","} \cup {Len(s) + 1}) - 1)

\* lines 554-563: the rule-based itinerary
RuleBasedItinerary(days, location, interests) ==
    [t |-> "array",
     items |-> [i \in 1..Len(days) |->
        [day |-> days[i],
         morning |-> <<<<"S","c","e","n","i","c"," ","w","a","l","k"," ","i","n"," ">> \o BeforeComma(location)>>,
         afternoon |-> <<<<"V","i","s","i","t"," ">> \o (IF interests # <<>> THEN interests[1]
                                       ELSE <<"l","o","c","a","l"," ","a","t","t","r","a","c","t","i","o","n","s">>)>>,
         evening |-> <<<<"D","i","n","n","e","r"," ","a","t"," ","a"," ","r","e","c","o","m","m","e","n","d","e","d"," ","s","p","o","t">>>>]]]

GenerationError(code) == [status |-> 500, detail |-> "AI generation failed", code |-> code]

GenerateStep_fallback(USE_OLLAMA, OLLAMA_MODEL, outcome, days, location, interests) ==
    IF USE_OLLAMA /\ JsonTruthy(generate_itinerary(outcome)) /\ JsonSized(generate_itinerary(outcome))
    THEN Ok([itinerary |-> generate_itinerary(outcome), model_used |-> OLLAMA_MODEL])
    ELSE Ok([itinerary |-> RuleBasedItinerary(days, location, interests),
             model_used |-> "rule-based"])

GenerateStep_byrequest(USE_OLLAMA, OLLAMA_MODEL, outcome, days, location, interests) ==
    IF USE_OLLAMA /\ Len(days) <= 3
    THEN IF ~JsonTruthy(generate_itinerary(outcome))
         THEN Raise(GenerationError("OLLAMA_EMPTY_RESPONSE"))
         ELSE IF ~JsonSized(generate_itinerary(outcome))
         THEN Raise(GenerationError("OLLAMA_GENERATION_ERROR"))
         ELSE Ok([itinerary |-> generate_itinerary(outcome), model_used |-> OLLAMA_MODEL])
    ELSE Ok([itinerary |-> RuleBasedItinerary(days, location, interests),
             model_used |-> "rule-based"])

\* lines 514-563: itinerary and model_used, or the HTTP 500 of a failed
\* generation; outcome is what the generation backend does when it is called
GenerateStep(USE_OLLAMA, OLLAMA_MODEL, outcome, days, location, interests) ==
    IF USE_OLLAMA
    THEN LET itinerary == generate_itinerary(outcome)
         IN IF ~JsonTruthy(itinerary)
            THEN Raise(GenerationError("OLLAMA_EMPTY_RESPONSE"))
            ELSE IF ~JsonSized(itinerary)
            THEN Raise(GenerationError("OLLAMA_GENERATION_ERROR"))
            ELSE Ok([itinerary |-> itinerary, model_used |-> OLLAMA_MODEL])
    ELSE Ok([itinerary |-> RuleBasedItinerary(days, location, interests),
             model_used |-> "rule-based"])

\* build_packing_checklist: the item names
build_packing_checklist(start, kid_friendly, accessible, dietary_filters, today) ==
    LET month == IF Truthy(start) THEN FromOrdinal(fromisoformat(start).val).m
                 ELSE FromOrdinal(today).m
    IN <<"Travel documents & insurance", "Comfortable walking shoes", "Layered outfits">>
       \o (IF accessible THEN <<"Lightweight mobility accessories">> ELSE <<>>)
       \o (IF kid_friendly
           THEN <<"Portable snacks & entertainment", "Collapsible stroller or carrier">>
           ELSE <<>>)
       \o (IF dietary_filters # <<>> THEN <<"Diet-friendly snacks">> ELSE <<>>)
       \o (IF month \in {12, 1, 2} THEN <<"Light rain jacket">> ELSE <<"Reusable water bottle">>)

Warnings_none(restaurants, tips) == <<>>

\* lines 627-634
Warnings(restaurants, tips) ==
    (IF restaurants = <<>> THEN <<"Restaurant recommendations unavailable">> ELSE <<>>)
    \o (IF tips = <<>> THEN <<"Local tips unavailable">> ELSE <<>>)

\* lines 565-567 and 595-681: the response body; `warnings` is <<>> when the
\* key is left out of the response
AssembleResponse(l, today) ==
    LET day_plans == build_day_plans(l.days, l.location, l.interests, l.budget,
                                     l.easy_mobility, l.kid_friendly)
        recs == build_restaurant_recommendations(l.location, l.requested_dietary, l.budget,
                                                 l.easy_mobility, l.kid_friendly, l.restaurants)
    IN [status |-> 200,
        dayPlans |-> day_plans,
        activityCards |-> flatten_activity_cards(day_plans),
        itinerary |-> IF JsonTruthy(l.itinerary) THEN l.itinerary
                      ELSE [t |-> "array", items |-> generate_legacy_itinerary(day_plans)],
        restaurants |-> recs,
        restaurantRecommendations |-> recs,
        packingChecklist |-> build_packing_checklist(l.start, l.kid_friendly, l.easy_mobility,
                                                     l.requested_dietary, today),
        tips |-> l.tips,
        meta |-> [location |-> l.location,
                  dates |-> [start |-> l.start, end |-> l.end],
                  guests |-> l.guests,
                  party |-> [type |-> l.party_type, kids |-> l.kids],
                  model_used |-> l.model_used,
                  nluDerived |-> l.derived_from_free_text],
        warnings |-> Warnings(l.restaurants, l.tips)]

-----------------------------------------------------------------------------
(* Startup *)

validate_security_config_lenient(JWT_SECRET) == JWT_SECRET # <<>>

\* validate_security_config does not raise
validate_security_config(JWT_SECRET) ==
    /\ ~(JWT_SECRET = <<>> \/ Strip(JWT_SECRET) = <<>>)
    /\ Len(JWT_SECRET) >= MinSecretLen

NoHandle == "None"
Handle == "airbnb"

-----------------------------------------------------------------------------
(* Requests the clients may send *)

TextTrip == <<"F","a","m","i","l","y"," ","f","o","o","d"," ","t","r","i","p"," ","i","n"," ","R","o","m","e"," ","f","o","r"," ","2"," ","k","i","d","s",","," ","v","e","g","a","n">>
TextPlain == <<"K","y","o","t","o">>
TextParis == <<"P","l","a","n"," ","a"," ","f","a","m","i","l","y"," ","t","r","i","p"," ","t","o"," ","P","a","r","i","s"," ","n","e","x","t"," ","w","e","e","k"," ","f","o","r"," ","5"," ","d","a","y","s"," ","w","i","t","h"," ","2"," ","k","i","d","s",","," ","v","e","g","a","n",","," ","w","h","e","e","l","c","h","a","i","r"," ","a","c","c","e","s","s","i","b","l","e">>
TextBlank == <<" "," "," ">>
TextSeps == <<" ",","," ",";">>
TextAnd == <<"L","i","s","b","o","n"," ","a","n","d"," ","P","o","r","t","o",";"," ","b","e","a","c","h","e","s">>
TextWeekend == <<"W","e","e","k","e","n","d"," ","g","e","t","a","w","a","y",","," ","P","o","r","t","o">>
TextTomorrow == <<"K","y","o","t","o"," ","t","o","m","o","r","r","o","w">>
TextNextWeekend == <<"P","o","r","t","o"," ","n","e","x","t"," ","w","e","e","k","e","n","d",","," ","o","r"," ","t","o","m","o","r","r","o","w">>

InlineFull ==
    [location |-> <<"P","a","r","i","s",","," ","F","r","a","n","c","e">>,
     dates |-> [start |-> <<"2","0","2","4","-","1","2","-","3","0","T","1","5",":","0","0",":","0","0">>, end |-> <<"2","0","2","5","-","0","1","-","0","2">>],
     guests |-> 2,
     party |-> [type |-> <<"f","r","i","e","n","d","s">>, kids |-> 0]]
InlineBare == [guests |-> 5, kids |-> 1]
InlineReversed ==
    [location |-> <<"O","s","l","o">>, dates |-> [start |-> <<"2","0","2","4","-","0","6","-","0","5">>, end |-> <<"2","0","2","4","-","0","6","-","0","1">>]]

PrefsFull ==
    [dietary |-> PyStr(<<" ","G","l","u","t","e","n"," ","F","r","e","e"," ">>),
     interests |-> PyList(<<<<"h","i","s","t","o","r","y">>>>),
     budget |-> PyStr(<<"H","i","g","h">>),
     mobility |-> PyStr(<<"A","c","c","e","s","s","i","b","l","e"," ","r","o","u","t","e","s">>)]
\* a partial preferences.dates override: a start, no end
PrefsStartOnly == [dates |-> [dict |-> [start |-> <<"2","0","2","4","-","0","6","-","1","0">>]]]
PrefsVegan == [dietary |-> PyList(<<<<"V","e","g","a","n">>, <<"v","e","g","a","n">>>>)]

NoReq == [None |-> TRUE]
NoLocals == [None |-> TRUE]
NoResp == [None |-> TRUE]
NoCalls == [lookup |-> 0, llm |-> 0, search |-> 0]

Requests ==
    [bookingId : {None, <<>>, KnownId, BareId, UnknownId, BadId},
     booking : {NoneDict, EmptyDict, InlineFull},
     free_text : {None, <<>>, TextTrip},
     preferences : {EmptyDict}]
    \cup {[bookingId |-> KnownId, booking |-> NoneDict, free_text |-> None,
           preferences |-> PrefsFull],
          [bookingId |-> None, booking |-> InlineFull, free_text |-> TextPlain,
           preferences |-> PrefsFull],
          [bookingId |-> None, booking |-> NoneDict, free_text |-> TextTrip,
           preferences |-> PrefsFull]}
    \cup {[bookingId |-> None, booking |-> b, free_text |-> None, preferences |-> PrefsVegan] :
             b \in {InlineBare, InlineReversed}}
    \cup {[bookingId |-> None, booking |-> NoneDict, free_text |-> t, preferences |-> PrefsVegan] :
             t \in {TextPlain, TextBlank, TextSeps, TextAnd}}
    \cup {[bookingId |-> None, booking |-> NoneDict, free_text |-> TextPlain,
           preferences |-> PrefsStartOnly],
          [bookingId |-> None, booking |-> NoneDict, free_text |-> TextParis,
           preferences |-> PrefsFull]}

TravelerToken ==
    [key |-> StrongSecret, alg |-> "HS256", exp |-> "future",
     payload |-> [id |-> "u1", role |-> "TRAVELER"]]

\* credentials presented to the running service
RequestCreds ==
    {NoCred, [credentials |-> MalformedToken], [credentials |-> TravelerToken],
     [credentials |-> [TravelerToken EXCEPT !.exp = "absent"]],
     [credentials |-> [TravelerToken EXCEPT !.exp = "past"]],
     [credentials |-> [TravelerToken EXCEPT !.key = OtherSecret]],
     [credentials |-> [TravelerToken EXCEPT !.payload = [id |-> "u1", role |-> "OWNER"]]],
     [credentials |-> [TravelerToken EXCEPT !.payload = [role |-> "TRAVELER"]]]}

Nows == {ToOrdinal(2024, 2, 27)}

-----------------------------------------------------------------------------
(* The service *)

Idle ==
    /\ pc = "idle" /\ req = NoReq /\ cred = NoCred /\ loc = NoLocals
    /\ calls = NoCalls /\ resp = NoResp

NoHarness == fn = "none" /\ args = <<>> /\ ret = <<>>

Init ==
    /\ cfg \in [JWT_SECRET : Secrets,
                USE_OLLAMA : BOOLEAN,
                OLLAMA_MODEL : {"qwen2.5-coder:1.5b-base"},
                TAVILY_API_KEY : {<<>>, <<"t","v","l","y","-","k","e","y">>}]
    /\ now \in Nows
    /\ phase = "boot" /\ dbm = NoHandle /\ db = NoHandle
    /\ Idle
    /\ NoHarness

\* on_startup[0]: validate_security_config
ValidateSecurityConfig ==
    /\ phase = "boot"
    /\ phase' = IF validate_security_config(cfg.JWT_SECRET) THEN "validated" ELSE "aborted"
    /\ UNCHANGED <<cfg, now, dbm, db, pc, req, cred, loc, calls, resp, fn, args, ret>>

\* on_startup[1]: db_manager.connect, which raises ConnectionFailure when the
\* store is unreachable
Connect ==
    /\ phase = "validated"
    /\ \E up \in BOOLEAN :
          IF up THEN dbm' = Handle /\ phase' = "serving"
          ELSE dbm' = dbm /\ phase' = "aborted"
    /\ UNCHANGED <<cfg, now, db, pc, req, cred, loc, calls, resp, fn, args, ret>>

\* a POST /agent/plan arrives
Receive ==
    /\ phase = "serving"
    /\ pc = "idle"
    /\ \E r \in Requests, c \in RequestCreds :
          req' = r /\ cred' = c
    /\ pc' = "verify"
    /\ loc' = NoLocals /\ calls' = NoCalls /\ resp' = NoResp
    /\ UNCHANGED <<cfg, now, phase, dbm, db, fn, args, ret>>

\* Depends(verify_jwt_token)
Verify ==
    /\ pc = "verify"
    /\ LET v == verify_jwt_token(cfg.JWT_SECRET, cred)
       IN IF v.status = 200
          THEN pc' = "get_db" /\ loc' = [user |-> v.payload] /\ resp' = resp
          ELSE pc' = "done" /\ loc' = loc /\ resp' = v
    /\ UNCHANGED <<cfg, now, phase, dbm, db, req, cred, calls, fn, args, ret>>

\* Depends(get_db): the global handle is fetched from the manager on first use
GetDb ==
    /\ pc = "get_db"
    /\ db' = IF db = NoHandle THEN dbm ELSE db
    /\ pc' = "resolve"
    /\ UNCHANGED <<cfg, now, phase, dbm, req, cred, loc, calls, resp, fn, args, ret>>

\* line 430: ctx is bound only when a bookingId was given
LocalsWithCtx(dbUp) ==
    IF Truthy(req.bookingId)
    THEN loc @@ [ctx |-> fetch_booking_context(req.bookingId, dbUp)]
    ELSE loc

ResolveTo(c, l) ==
    IF c.ok
    THEN pc' = "prepare" /\ loc' = l @@ c.val /\ resp' = resp
    ELSE pc' = "done" /\ loc' = l /\ resp' = c.exc

\* lines 428-468
Resolve ==
    /\ pc = "resolve"
    /\ \E dbUp \in BOOLEAN :
          ResolveTo(ResolveContext(req, now, dbUp), LocalsWithCtx(dbUp))
    /\ calls' = [calls EXCEPT !.lookup =
                    IF Truthy(req.bookingId) /\ ValidObjectId(req.bookingId) THEN @ + 1 ELSE @]
    /\ UNCHANGED <<cfg, now, phase, dbm, db, req, cred, fn, args, ret>>

\* lines 470-511: an invalid or reversed date range is an unhandled ValueError;
\* loc.days is date_range(start, end), which lines 554 and 565 compute again
Prepare ==
    /\ pc = "prepare"
    /\ LET d == date_range(loc.start, loc.end)
       IN IF d.ok
          THEN /\ pc' = "generate"
               /\ loc' = loc @@ NormalizePreferences(req, loc) @@ [days |-> d.val]
               /\ resp' = resp
          ELSE pc' = "done" /\ loc' = loc /\ resp' = InternalServerError
    /\ UNCHANGED <<cfg, now, phase, dbm, db, req, cred, calls, fn, args, ret>>

\* l: the locals, with the backend's reply when the backend was called
GenerateTo(g, l) ==
    IF g.ok
    THEN pc' = "search_restaurants" /\ loc' = l @@ g.val /\ resp' = resp
    ELSE pc' = "done" /\ loc' = l /\ resp' = g.exc

GenerateWith(outcome, l) ==
    GenerateTo(GenerateStep(cfg.USE_OLLAMA, cfg.OLLAMA_MODEL, outcome,
                            loc.days, loc.location, loc.interests), l)

\* lines 514-563
Generate ==
    /\ pc = "generate"
    /\ \/ /\ cfg.USE_OLLAMA
          /\ \E outcome \in LlmOutcomes :
                GenerateWith(outcome, loc @@ [llm_reply |-> outcome])
          /\ calls' = [calls EXCEPT !.llm = @ + 1]
       \/ /\ ~cfg.USE_OLLAMA
          /\ GenerateWith([raises |-> TRUE], loc)
          /\ calls' = calls
    /\ UNCHANGED <<cfg, now, phase, dbm, db, req, cred, fn, args, ret>>

SearchWith(outcome, key, next) ==
    LET s == tavily_search(cfg.TAVILY_API_KEY, outcome)
    IN IF s.ok
       THEN pc' = next /\ loc' = loc @@ (key :> s.val) /\ resp' = resp
       ELSE pc' = "done" /\ loc' = loc /\ resp' = InternalServerError

Search_retry(key, next) ==
    \/ /\ cfg.TAVILY_API_KEY # <<>>
       /\ \E outcome \in SearchOutcomes :
             /\ SearchWith(outcome, key, next)
             /\ calls' = [calls EXCEPT !.search =
                             IF outcome.kind = "request_exception" THEN @ + 2 ELSE @ + 1]
    \/ /\ cfg.TAVILY_API_KEY = <<>>
       /\ SearchWith([kind |-> "request_exception"], key, next)
       /\ calls' = calls

Search(key, next) ==
    \/ /\ cfg.TAVILY_API_KEY # <<>>
       /\ \E outcome \in SearchOutcomes : SearchWith(outcome, key, next)
       /\ calls' = [calls EXCEPT !.search = @ + 1]
    \/ /\ cfg.TAVILY_API_KEY = <<>>
       /\ SearchWith([kind |-> "request_exception"], key, next)
       /\ calls' = calls

\* line 593
SearchRestaurants ==
    /\ pc = "search_restaurants"
    /\ Search("restaurants", "search_tips")
    /\ UNCHANGED <<cfg, now, phase, dbm, db, req, cred, fn, args, ret>>

\* line 594
SearchTips ==
    /\ pc = "search_tips"
    /\ Search("tips", "assemble")
    /\ UNCHANGED <<cfg, now, phase, dbm, db, req, cred, fn, args, ret>>

\* lines 565-567 and 595-681
Assemble ==
    /\ pc = "assemble"
    /\ resp' = AssembleResponse(loc, now)
    /\ pc' = "done"
    /\ UNCHANGED <<cfg, now, phase, dbm, db, req, cred, loc, calls, fn, args, ret>>

Next ==
    \/ ValidateSecurityConfig
    \/ Connect
    \/ Receive
    \/ Verify
    \/ GetDb
    \/ Resolve
    \/ Prepare
    \/ Generate
    \/ SearchRestaurants
    \/ SearchTips
    \/ Assemble

Spec == Init /\ [][Next]_vars

-----------------------------------------------------------------------------
(* Functions exercised on their own: fn is applied to args, ret is its
   result *)

NoRet == <<>>

\* calendar dates around a year end, a leap day and the next year end
DateWindow == 2
DateAnchors == {ToOrdinal(2023, 12, 31), ToOrdinal(2024, 2, 28), ToOrdinal(2024, 12, 31)}
DatesNear(a) == {strftime(a + k) : k \in (0 - 1)..DateWindow}
InvalidDates == {<<"2","0","2","4","-","0","2","-","3","0">>, <<"2","0","2","3","-","0","2","-","2","9">>, <<"n","e","x","t"," ","f","r","i","d","a","y">>, <<>>}
DateArgs(a) == DatesNear(a) \cup InvalidDates

MaxDays == 4
MaxInterests == 3
InterestPool == {<<"f","o","o","d">>, <<"s","t","r","e","e","t"," ","a","r","t">>, <<"H","i","k","i","n","g">>}
InterestLists == UNION {[1..n -> InterestPool] : n \in 0..MaxInterests}
DayLists == {DaysLoop(ToOrdinal(2024, 2, 27), ToOrdinal(2024, 2, 27) + n - 1) : n \in 0..MaxDays}

MaxDietary == 3
DietaryPool == {<<" ","G","l","u","t","e","n"," ","F","r","e","e"," ">>, <<"g","l","u","t","e","n","-","f","r","e","e">>, <<"V","e","g","a","n">>, <<"v","e","g","a","n">>, <<" "," ">>}
DietaryLists == UNION {[1..n -> DietaryPool] : n \in 0..MaxDietary}
DietaryArgs == {PyNone} \cup {PyStr(d) : d \in DietaryPool} \cup {PyList(l) : l \in DietaryLists}

MaxTodayOffset == 6
Todays == {ToOrdinal(2024, 2, 27) + k : k \in 0..MaxTodayOffset}

\* what tavily_search returns when the backend sends n results
SearchResults(n) == [i \in 1..n |-> SearchItem(BackendItem(i))]

UnitTexts ==
    {<<>>, TextParis, TextTrip, TextPlain, TextBlank, TextSeps, TextAnd, TextWeekend,
     TextTomorrow, TextNextWeekend}

UnitConfig ==
    [JWT_SECRET |-> StrongSecret, USE_OLLAMA |-> FALSE,
     OLLAMA_MODEL |-> "qwen2.5-coder:1.5b-base", TAVILY_API_KEY |-> <<>>]

UnitArgs ==
    \/ /\ fn = "verify_jwt_token"
       /\ \E s \in Secrets, c \in Creds : args = <<s, c>>
    \/ /\ fn = "date_range"
       /\ \E a \in DateAnchors :
             \E start \in DateArgs(a), end \in DateArgs(a) : args = <<start, end>>
    \/ /\ fn = "build_day_plans"
       /\ \E days \in DayLists, interests \in InterestLists,
             budget \in {None, <<"l","o","w">>}, accessible \in BOOLEAN :
             args = <<days, <<"R","o","m","e">>, interests, budget, accessible, ~accessible>>
    \/ /\ fn = "normalize_dietary_filters"
       /\ \E pref_value \in DietaryArgs, inferred \in {<<>>, <<<<"h","a","l","a","l">>, <<"v","e","g","a","n">>>>} :
             args = <<pref_value, inferred>>
    \/ /\ fn = "infer_context_from_free_text"
       /\ \E free_text \in UnitTexts,
             base_preferences \in {EmptyDict, PrefsFull, PrefsStartOnly},
             today \in Todays :
             args = <<free_text, base_preferences, today>>
    \/ /\ fn = "build_restaurant_recommendations"
       /\ \E n \in 0..MaxSearchResults,
             dietary_filters \in {<<>>, <<<<"v","e","g","a","n">>>>, <<<<"g","l","u","t","e","n","-","f","r","e","e">>, <<"v","e","g","a","n">>>>, <<<<"h","a","l","a","l">>>>},
             accessible \in BOOLEAN :
             args = <<<<"R","o","m","e">>, dietary_filters, <<"h","i","g","h">>, accessible, ~accessible, SearchResults(n)>>

InitUnit ==
    /\ cfg = UnitConfig
    /\ now \in Nows
    /\ phase = "unit" /\ dbm = NoHandle /\ db = NoHandle
    /\ pc = "call" /\ req = NoReq /\ cred = NoCred /\ loc = NoLocals
    /\ calls = NoCalls /\ resp = NoResp
    /\ UnitArgs
    /\ ret = NoRet

Return(v) ==
    /\ ret' = v
    /\ pc' = "return"
    /\ UNCHANGED <<cfg, now, phase, dbm, db, req, cred, loc, calls, resp, fn, args>>

CallVerifyJwtToken ==
    /\ phase = "unit" /\ pc = "call" /\ fn = "verify_jwt_token"
    /\ Return(verify_jwt_token(args[1], args[2]))

CallDateRange ==
    /\ phase = "unit" /\ pc = "call" /\ fn = "date_range"
    /\ Return(date_range(args[1], args[2]))

CallBuildDayPlans ==
    /\ phase = "unit" /\ pc = "call" /\ fn = "build_day_plans"
    /\ Return(build_day_plans(args[1], args[2], args[3], args[4], args[5], args[6]))

CallNormalizeDietaryFilters ==
    /\ phase = "unit" /\ pc = "call" /\ fn = "normalize_dietary_filters"
    /\ Return(normalize_dietary_filters(args[1], args[2]))

CallInferContextFromFreeText ==
    /\ phase = "unit" /\ pc = "call" /\ fn = "infer_context_from_free_text"
    /\ Return(infer_context_from_free_text(args[1], args[2], args[3]))

CallBuildRestaurantRecommendations ==
    /\ phase = "unit" /\ pc = "call" /\ fn = "build_restaurant_recommendations"
    /\ Return(build_restaurant_recommendations(args[1], args[2], args[3], args[4],
                                               args[5], args[6]))

NextUnit ==
    \/ CallVerifyJwtToken
    \/ CallDateRange
    \/ CallBuildDayPlans
    \/ CallNormalizeDietaryFilters
    \/ CallInferContextFromFreeText
    \/ CallBuildRestaurantRecommendations

SpecUnit == InitUnit /\ [][NextUnit]_vars

-----------------------------------------------------------------------------
(* get_db under concurrent requests: plan and health are plain `def` routes,
   so the Depends(get_db) of each request runs on a worker thread. For each
   thread t, pc[t] is its position in get_db, loc[t] the handle it fetched,
   ret[t] what get_db last returned to it, calls[t] its number of calls. *)

NumThreads == 3
Threads == 1..NumThreads
MaxGetDbCalls == 2
\* get_db has not returned to the thread yet
Pending == "pending"

\* DatabaseManager.get_db: self.db, or an Exception before connect()
DatabaseManager_get_db_reopen(m) == Ok("airbnb'")

DatabaseManager_get_db(m) ==
    IF m = NoHandle THEN Raise("Exception") ELSE Ok(m)

InitConc ==
    /\ cfg \in {[UnitConfig EXCEPT !.JWT_SECRET = s] : s \in Secrets}
    /\ now \in Nows
    /\ phase = "boot" /\ dbm = NoHandle /\ db = NoHandle
    /\ pc = [t \in Threads |-> "idle"]
    /\ loc = [t \in Threads |-> NoHandle]
    /\ ret = [t \in Threads |-> Pending]
    /\ calls = [t \in Threads |-> 0]
    /\ req = NoReq /\ cred = NoCred /\ resp = NoResp
    /\ fn = "none" /\ args = <<>>

\* line 109: `if db is None` reads the global
GetDbTest(t) ==
    /\ phase = "serving" /\ pc[t] = "idle" /\ calls[t] < MaxGetDbCalls
    /\ pc' = [pc EXCEPT ![t] = IF db = NoHandle THEN "fetch" ELSE "return"]
    /\ calls' = [calls EXCEPT ![t] = @ + 1]
    /\ UNCHANGED <<cfg, now, phase, dbm, db, req, cred, loc, resp, fn, args, ret>>

\* line 110, right-hand side: db_manager.get_db()
GetDbFetchTo(t, r) ==
    IF r.ok
    THEN pc' = [pc EXCEPT ![t] = "store"] /\ loc' = [loc EXCEPT ![t] = r.val] /\ ret' = ret
    ELSE pc' = [pc EXCEPT ![t] = "idle"] /\ loc' = loc /\ ret' = [ret EXCEPT ![t] = r.exc]
GetDbFetch(t) ==
    /\ pc[t] = "fetch"
    /\ GetDbFetchTo(t, DatabaseManager_get_db(dbm))
    /\ UNCHANGED <<cfg, now, phase, dbm, db, req, cred, calls, resp, fn, args>>

\* line 110, the assignment to the global
GetDbStore(t) ==
    /\ pc[t] = "store"
    /\ db' = loc[t]
    /\ pc' = [pc EXCEPT ![t] = "return"]
    /\ UNCHANGED <<cfg, now, phase, dbm, req, cred, loc, calls, resp, fn, args, ret>>

\* line 111: `return db` reads the global again
GetDbReturn(t) ==
    /\ pc[t] = "return"
    /\ ret' = [ret EXCEPT ![t] = db]
    /\ pc' = [pc EXCEPT ![t] = "idle"]
    /\ UNCHANGED <<cfg, now, phase, dbm, db, req, cred, loc, calls, resp, fn, args>>

NextConc ==
    \/ ValidateSecurityConfig
    \/ Connect
    \/ \E t \in Threads : GetDbTest(t)
    \/ \E t \in Threads : GetDbFetch(t)
    \/ \E t \in Threads : GetDbStore(t)
    \/ \E t \in Threads : GetDbReturn(t)

SpecConc == InitConc /\ [][NextConc]_vars

-----------------------------------------------------------------------------
(* Properties of context resolution *)

HasBookingId(r) == r.bookingId # None /\ r.bookingId # <<>>
HasInlineBooking(r) == r.booking # NoneDict /\ r.booking # EmptyDict
HasFreeText(r) == r.free_text # None /\ r.free_text # <<>>

\* the request has passed the verifier and the resolver has run
Resolved == "user" \in DOMAIN loc /\ pc \notin {"get_db", "resolve"}

ContextOf(l) ==
    [location |-> l.location, start |-> l.start, end |-> l.end,
     guests |-> l.guests, party_type |-> l.party_type, kids |-> l.kids]
ContextOfMeta(m) ==
    [location |-> m.location, start |-> m.dates.start, end |-> m.dates.end,
     guests |-> m.guests, party_type |-> m.party.type, kids |-> m.party.kids]
ContextOfDerived(d) ==
    [location |-> d.location, start |-> d.dates.start, end |-> d.dates.end,
     guests |-> d.guests, party_type |-> d.party_type, kids |-> d.kids]

\* C1: the trip context comes from exactly one source in the priority
\* bookingId, inline booking, free text. With a non-empty bookingId the
\* location, dates, guests and party are those of the stored booking alone;
\* without one and with a non-empty booking object they are those of that
\* object alone; the free-text extraction runs (and folds its findings into
\* the preferences) only when both are absent, and meta.nluDerived is true
\* exactly then.
C1_SourcePriority ==
    /\ "location" \in DOMAIN loc =>
          IF HasBookingId(req)
          THEN /\ ContextOf(loc) =
                    ContextFromStored(fetch_booking_context(req.bookingId, TRUE), now)
               /\ ~loc.derived_from_free_text
               /\ loc.preferences = req.preferences
          ELSE IF HasInlineBooking(req)
          THEN /\ ContextOf(loc) = ContextFromInline(req.booking, now)
               /\ ~loc.derived_from_free_text
               /\ loc.preferences = req.preferences
          ELSE /\ HasFreeText(req)
               /\ ContextOf(loc) =
                    ContextOfDerived(
                        infer_context_from_free_text(req.free_text, req.preferences, now))
               /\ loc.derived_from_free_text
    /\ (pc = "done" /\ resp.status = 200) =>
          /\ ContextOfMeta(resp.meta) = ContextOf(loc)
          /\ resp.meta.nluDerived <=> (~HasBookingId(req) /\ ~HasInlineBooking(req))

\* a request carrying all three sources is answered from the stored booking
C1_Witness ==
    /\ pc = "done" /\ resp.status = 200
    /\ req.bookingId = KnownId /\ req.booking = InlineFull /\ req.free_text = TextTrip
    /\ resp.meta.location = <<"L","i","s","b","o","n",","," ","P","o","r","t","u","g","a","l">>
    /\ resp.meta.dates.start = <<"2","0","2","4","-","0","3","-","1","0">>
    /\ ~resp.meta.nluDerived

\* C2: an authenticated request in which bookingId, booking and free_text are
\* all absent or empty ends at the resolver with HTTP 400: no context, no
\* itinerary, no enrichment and no response body are produced, and no
\* backend is called.
C2_NoSourceIsInputError ==
    (Resolved /\ ~HasBookingId(req) /\ ~HasInlineBooking(req) /\ ~HasFreeText(req)) =>
        /\ pc = "done"
        /\ resp.status = 400
        /\ DOMAIN resp = {"status", "detail"}
        /\ DOMAIN loc = {"user"}
        /\ calls = NoCalls

C2_Witness ==
    /\ pc = "done" /\ resp.status = 400
    /\ req.bookingId = <<>> /\ req.booking = EmptyDict /\ req.free_text = <<>>
    /\ "user" \in DOMAIN loc

\* C3: when the lookup of a non-empty bookingId returns no record the request
\* ends with HTTP 404; the resolver does not go on to the inline booking or
\* the free text, whether or not they are supplied.
C3_UnknownBookingIsNotFound ==
    /\ (Resolved /\ HasBookingId(req)) => "ctx" \in DOMAIN loc
    /\ ("ctx" \in DOMAIN loc /\ loc.ctx = NoneDict) =>
          /\ pc = "done"
          /\ resp.status = 404
          /\ "location" \notin DOMAIN loc
          /\ calls.llm = 0 /\ calls.search = 0
    /\ (Resolved /\ req.bookingId \in {UnknownId, BadId}) =>
          (pc = "done" /\ resp.status = 404)

C3_Witness ==
    /\ pc = "done" /\ resp.status = 404
    /\ req.bookingId = UnknownId /\ req.booking = InlineFull /\ req.free_text = TextTrip
    /\ calls.lookup = 1

-----------------------------------------------------------------------------
(* Properties of the token verifier *)

ValidlySigned(token, secret) ==
    token # MalformedToken /\ token.alg = "HS256" /\ token.key = secret

IsTraveler(payload) ==
    "id" \in DOMAIN payload /\ "role" \in DOMAIN payload /\ payload.role = "TRAVELER"

\* the credential must not be accepted under this secret
Unacceptable(secret, c) ==
    \/ secret = <<>>
    \/ c = NoCred
    \/ ~ValidlySigned(c.credentials, secret)
    \/ c.credentials.exp = "past"
    \/ ~IsTraveler(c.credentials.payload)

\* C4: a request whose bearer token fails verification (503, 401 or 403)
\* ends at the verifier: no booking lookup, no generation-backend call and
\* no search-backend call is issued for it.
C4_RejectedStopsAtVerifier ==
    /\ (pc \notin {"idle", "verify"} /\ Unacceptable(cfg.JWT_SECRET, cred)) =>
          /\ pc = "done"
          /\ resp.status \in {401, 403, 503}
          /\ calls = NoCalls
          /\ loc = NoLocals
    /\ (pc = "done" /\ resp.status \in {401, 403, 503}) =>
          (calls = NoCalls /\ loc = NoLocals)

C4_Witness ==
    /\ pc = "done" /\ resp.status = 403
    /\ req.bookingId = KnownId
    /\ cred.credentials.payload = [id |-> "u1", role |-> "OWNER"]
    /\ calls = NoCalls

\* C5: with no shared secret configured, verify_jwt_token rejects with HTTP
\* 503 whether or not a credential is presented and whatever it holds; no
\* token is accepted.
C5_NoSecretRejectsAll ==
    (fn = "verify_jwt_token" /\ pc = "return" /\ args[1] = EmptySecret) =>
        ret.status = 503

C5_Witness ==
    /\ fn = "verify_jwt_token" /\ pc = "return"
    /\ args[1] = EmptySecret
    /\ args[2] = [credentials |-> TravelerToken]
    /\ ret.status = 503

\* C6: verify_jwt_token returns a claim set only for a token that is validly
\* signed, unexpired, holds 'id' and has role exactly TRAVELER, and then it
\* is the token's claim set; a validly signed, unexpired token without 'id'
\* or with another role is answered 403, neither 401 nor acceptance.
C6_OnlyTravelersAccepted ==
    (fn = "verify_jwt_token" /\ pc = "return") =>
        /\ ret.status = 200 =>
              /\ ~Unacceptable(args[1], args[2])
              /\ ret.payload = args[2].credentials.payload
        /\ ( /\ args[1] # <<>>
             /\ args[2] # NoCred
             /\ ValidlySigned(args[2].credentials, args[1])
             /\ args[2].credentials.exp # "past"
             /\ ~IsTraveler(args[2].credentials.payload) ) =>
              ret.status = 403

C6_Witness ==
    /\ fn = "verify_jwt_token" /\ pc = "return"
    /\ args[1] = StrongSecret
    /\ args[2] = [credentials |->
                    [TravelerToken EXCEPT !.payload = [id |-> "u1", role |-> "OWNER"]]]
    /\ ret.status = 403

-----------------------------------------------------------------------------
(* Properties of generation and enrichment *)

\* the backend call raised, or its text is empty or holds no JSON, or the
\* JSON it holds is empty
BackendFailed(reply) ==
    \/ reply.raises
    \/ reply.whole = NoParse /\ reply.bracket \in {NoMatch, NoParse}
    \/ reply.whole \in {JsonArray(0), JsonObject(0), JsonString(0), JsonNull}
    \/ reply.whole = NoParse /\ reply.bracket = JsonArray(0)

\* C7: in generative mode, when the generation backend call errors or its
\* output is empty or unparseable the request ends with HTTP 500; no
\* successful response is returned for it, and a successful response in
\* generative mode never carries model_used 'rule-based'.
C7_GenerationFailureIsError ==
    /\ (cfg.USE_OLLAMA /\ "llm_reply" \in DOMAIN loc /\ BackendFailed(loc.llm_reply)) =>
          /\ pc = "done"
          /\ resp.status = 500
          /\ DOMAIN resp = {"status", "detail", "code"}
          /\ calls.search = 0
    /\ (cfg.USE_OLLAMA /\ pc = "done" /\ resp.status = 200) =>
          /\ resp.meta.model_used = cfg.OLLAMA_MODEL
          /\ resp.meta.model_used # "rule-based"
          /\ ~BackendFailed(loc.llm_reply)

C7_Witness ==
    /\ cfg.USE_OLLAMA /\ pc = "done" /\ resp.status = 500
    /\ "llm_reply" \in DOMAIN loc
    /\ ~loc.llm_reply.raises
    /\ loc.llm_reply.whole = NoParse /\ loc.llm_reply.bracket = NoMatch
    /\ calls.llm = 1

\* C8: a request whose two search queries have returned is answered
\* successfully however empty their results: 'warnings' holds an entry for
\* each query that came back empty, and with an empty restaurant result the
\* restaurant recommendations are still non-empty (the static fallback).
C8_EmptyEnrichmentDegrades ==
    /\ ("restaurants" \in DOMAIN loc /\ loc.restaurants = <<>> /\ "tips" \notin DOMAIN loc) =>
          (pc = "search_tips" \/ (pc = "done" /\ resp = InternalServerError))
    /\ (pc = "done" /\ "tips" \in DOMAIN loc) =>
          /\ resp.status = 200
          /\ loc.restaurants = <<>> =>
                /\ "Restaurant recommendations unavailable" \in SeqRange(resp.warnings)
                /\ resp.restaurantRecommendations # <<>>
                /\ resp.restaurants # <<>>
          /\ loc.tips = <<>> => "Local tips unavailable" \in SeqRange(resp.warnings)
          /\ (loc.restaurants # <<>> /\ loc.tips # <<>>) => resp.warnings = <<>>

C8_Witness ==
    /\ pc = "done" /\ resp.status = 200
    /\ cfg.TAVILY_API_KEY # <<>> /\ calls.search = 2
    /\ loc.restaurants = <<>> /\ loc.tips = <<>>
    /\ Len(resp.warnings) = 2
    /\ Len(resp.restaurantRecommendations) = 1

-----------------------------------------------------------------------------
(* Properties of build_day_plans and date_range *)

DayParts == <<<<"m","o","r","n","i","n","g">>, <<"a","f","t","e","r","n","o","o","n">>, <<"e","v","e","n","i","n","g">>>>
Durations == <<120, 120, 150>>

\* C9: for every list of days and every interest list (empty, shorter than,
\* as long as or longer than the days) build_day_plans returns one plan per
\* day, in order, each with 3 activities for morning, afternoon and evening
\* lasting 120, 120 and 150 minutes; the theme of the plan at index i is the
\* title-cased interests[i mod len(interests)], and 'Local Culture' when the
\* interest list is empty.
C9_DayPlansRoundRobin ==
    (fn = "build_day_plans" /\ pc = "return") =>
        /\ Len(ret) = Len(args[1])
        /\ \A i \in 1..Len(args[1]) :
              /\ ret[i].day = args[1][i]
              /\ Len(ret[i].activities) = 3
              /\ \A j \in 1..3 :
                    /\ DayParts[j] \in ret[i].activities[j].tags
                    /\ ret[i].activities[j].durationMinutes = Durations[j]
              /\ args[3] # <<>> =>
                    ret[i].theme = Title(args[3][((i - 1) % Len(args[3])) + 1])
              /\ args[3] = <<>> => ret[i].theme = <<"L","o","c","a","l"," ","C","u","l","t","u","r","e">>

\* four days over three interests: the fourth day returns to the first
C9_Witness ==
    /\ fn = "build_day_plans" /\ pc = "return"
    /\ Len(args[1]) = 4
    /\ args[3] = <<<<"f","o","o","d">>, <<"s","t","r","e","e","t"," ","a","r","t">>, <<"H","i","k","i","n","g">>>>
    /\ ret[2].theme = <<"S","t","r","e","e","t"," ","A","r","t">>
    /\ ret[4].theme = <<"F","o","o","d">>
    /\ ret[4].activities[3].durationMinutes = 150

\* start and end are calendar dates with start <= end
ValidRange(start, end) ==
    /\ fromisoformat(start).ok /\ fromisoformat(end).ok
    /\ fromisoformat(start).val <= fromisoformat(end).val

\* day of the year of an ordinal, 1 for the first of January
DayOfYear(n) == n - DaysBeforeYear(YearOf(n))

IsoText(y, m, d) == Fmt4(y) \o <<"-">> \o Fmt2(m) \o <<"-">> \o Fmt2(d)
NextDay(y, m, d) ==
    IF d < DaysInMonth(y, m) THEN IsoText(y, m, d + 1)
    ELSE IF m < 12 THEN IsoText(y, m + 1, 1)
    ELSE IsoText(y + 1, 1, 1)
\* the calendar day after the day written YYYY-MM-DD
NextDayText(s) ==
    NextDay(100 * Num2(SubSeq(s, 1, 2)) + Num2(SubSeq(s, 3, 4)),
            Num2(SubSeq(s, 6, 7)), Num2(SubSeq(s, 9, 10)))

IsIsoText(s) ==
    /\ Len(s) = 10
    /\ \A i \in {1, 2, 3, 4, 6, 7, 9, 10} : s[i] \in DigitSet
    /\ s[5] = "-" /\ s[8] = "-"

\* the days are start, its successors in calendar order, and end
ConsecutiveDays(days, start, end) ==
    /\ days # <<>>
    /\ days[1] = start /\ days[Len(days)] = end
    /\ \A i \in 1..Len(days) : IsIsoText(days[i])
    /\ \A i \in 1..(Len(days) - 1) : days[i + 1] = NextDayText(days[i])

\* C10, as stated: for a valid range start <= end, date_range yields
\* end.dayOfYear - start.dayOfYear + 1 entries, consecutive calendar days
\* ascending and inclusive of both ends, each formatted YYYY-MM-DD.
C10_AsStated ==
    (fn = "date_range" /\ pc = "return" /\ ValidRange(args[1], args[2])) =>
        /\ ret.ok
        /\ Len(ret.val) = DayOfYear(fromisoformat(args[2]).val)
                            - DayOfYear(fromisoformat(args[1]).val) + 1
        /\ ConsecutiveDays(ret.val, args[1], args[2])

\* C10, amended: for a valid range start <= end, date_range yields one entry
\* per calendar day from start to end inclusive (the number of days between
\* them plus one, which is end.dayOfYear - start.dayOfYear + 1 when both lie
\* in the same year), consecutive and ascending, each formatted YYYY-MM-DD.
C10_InclusiveDays ==
    (fn = "date_range" /\ pc = "return" /\ ValidRange(args[1], args[2])) =>
        /\ ret.ok
        /\ Len(ret.val) = fromisoformat(args[2]).val - fromisoformat(args[1]).val + 1
        /\ ConsecutiveDays(ret.val, args[1], args[2])
        /\ SubSeq(args[1], 1, 4) = SubSeq(args[2], 1, 4) =>
              Len(ret.val) = DayOfYear(fromisoformat(args[2]).val)
                                - DayOfYear(fromisoformat(args[1]).val) + 1

\* a range over the end of a year
C10_Witness ==
    /\ fn = "date_range" /\ pc = "return"
    /\ args = <<<<"2","0","2","3","-","1","2","-","3","0">>, <<"2","0","2","4","-","0","1","-","0","2">>>>
    /\ ret.ok
    /\ ret.val = <<<<"2","0","2","3","-","1","2","-","3","0">>, <<"2","0","2","3","-","1","2","-","3","1">>, <<"2","0","2","4","-","0","1","-","0","1">>, <<"2","0","2","4","-","0","1","-","0","2">>>>

-----------------------------------------------------------------------------
(* Properties of the resolved context and of the preference set *)

\* the date written first is not after the date written second
NotAfter(start, end) ==
    /\ fromisoformat(start).ok /\ fromisoformat(end).ok
    /\ fromisoformat(start).val <= fromisoformat(end).val

\* C11: the trip context handed on by the resolver satisfies start <= end:
\* for every request whose resolution ends without an error response, on the
\* stored-booking, inline-booking and free-text paths alike, the resolved
\* start is not after the resolved end.
C11_StartNotAfterEnd ==
    "location" \in DOMAIN loc => NotAfter(loc.start, loc.end)

\* how many entries of the list are the value
CountOf(list, value) == Cardinality({i \in 1..Len(list) : list[i] = value})

\* the values handed to the normalizer: a string counts as a list of one
DietaryInput(pref_value) ==
    IF "str" \in DOMAIN pref_value THEN <<pref_value.str>>
    ELSE IF "list" \in DOMAIN pref_value THEN pref_value.list
    ELSE <<>>

\* C12: dietary normalization is idempotent: for a single string or a list,
\* normalize_dietary_filters applied to its own output returns that output;
\* 'Gluten Free' and 'gluten-free' given together become the one value
\* 'gluten-free', and no value is listed twice.
C12_NormalizeIdempotent ==
    (fn = "normalize_dietary_filters" /\ pc = "return") =>
        /\ normalize_dietary_filters(PyList(ret), <<>>) = ret
        /\ \A i \in 1..Len(ret) : CountOf(ret, ret[i]) = 1
        /\ <<"g","l","u","t","e","n"," ","f","r","e","e">> \notin SeqRange(ret)
        /\ ( \E v \in SeqRange(DietaryInput(args[1]) \o args[2]) :
                 Lower(Strip(v)) \in {<<"g","l","u","t","e","n"," ","f","r","e","e">>, <<"g","l","u","t","e","n","-","f","r","e","e">>} ) =>
              CountOf(ret, <<"g","l","u","t","e","n","-","f","r","e","e">>) = 1

C12_Witness ==
    /\ fn = "normalize_dietary_filters" /\ pc = "return"
    /\ args[1] = PyList(<<<<" ","G","l","u","t","e","n"," ","F","r","e","e"," ">>, <<"g","l","u","t","e","n","-","f","r","e","e">>, <<"V","e","g","a","n">>>>)
    /\ args[2] = <<>>
    /\ ret = <<<<"g","l","u","t","e","n","-","f","r","e","e">>, <<"v","e","g","a","n">>>>

FoldedKeys == {"interests", "budget", "dietary", "mobility"}

\* C13: on the free-text path, folding the derived values into the
\* preference set changes no value the caller supplied: for each of
\* interests, budget, dietary and mobility that the caller's preferences
\* carry, the preference set used downstream holds that same value.
C13_CallerValuesKept ==
    ("location" \in DOMAIN loc /\ loc.derived_from_free_text) =>
        \A k \in FoldedKeys \cap DOMAIN req.preferences :
            /\ k \in DOMAIN loc.preferences
            /\ loc.preferences[k] = req.preferences[k]

-----------------------------------------------------------------------------
(* Properties of enrichment *)

\* 'max_results': 5 of the search request
MaxResultsRequested == 5

\* C14: each enrichment query result is capped at 5: whatever number of
\* results the search backend sends, the sequence tavily_search returns, and
\* so the 'tips' array of the response, has at most 5 entries.
C14_AtMostFiveResults ==
    /\ "restaurants" \in DOMAIN loc => Len(loc.restaurants) <= MaxResultsRequested
    /\ "tips" \in DOMAIN loc => Len(loc.tips) <= MaxResultsRequested
    /\ (pc = "done" /\ resp.status = 200) => Len(resp.tips) <= MaxResultsRequested

\* generation has succeeded: the request is at or past enrichment
Enriching == "model_used" \in DOMAIN loc

\* C15: every failure of a search-backend call (transport error, timeout,
\* error status, or a payload that cannot be read as a result list) is
\* swallowed: the query yields a sequence, the other query is still issued,
\* and the request ends with a success response, never an error status.
C15_SearchFailureSwallowed ==
    /\ (Enriching /\ pc \in {"search_tips", "assemble", "done"}) =>
          "restaurants" \in DOMAIN loc
    /\ (Enriching /\ pc \in {"assemble", "done"}) => "tips" \in DOMAIN loc
    /\ (Enriching /\ pc = "done") => resp.status = 200

-----------------------------------------------------------------------------
(* Properties of generation *)

\* the generation step of the request has run
Generated == "days" \in DOMAIN loc /\ pc # "generate"

\* C16: the generator mode is selected by configuration only: whatever the
\* request holds, the generation backend is invoked if and only if
\* USE_OLLAMA is true, and meta.model_used of a successful response is
\* 'rule-based' if and only if USE_OLLAMA is false.
C16_ModeByConfiguration ==
    /\ ~Generated => calls.llm = 0
    /\ Generated => (calls.llm = 1 <=> cfg.USE_OLLAMA)
    /\ Generated => (calls.llm = 0 <=> ~cfg.USE_OLLAMA)
    /\ (pc = "done" /\ resp.status = 200) =>
          /\ resp.meta.model_used = "rule-based" <=> ~cfg.USE_OLLAMA
          /\ resp.meta.model_used = cfg.OLLAMA_MODEL <=> cfg.USE_OLLAMA

C16_Witness ==
    /\ pc = "done" /\ resp.status = 200
    /\ ~cfg.USE_OLLAMA
    /\ req.booking = InlineFull /\ req.bookingId = None
    /\ resp.meta.model_used = "rule-based"
    /\ calls.llm = 0
    /\ Len(resp.itinerary.items) = 4

-----------------------------------------------------------------------------
(* Properties of the external calls *)

\* C17: no external call is retried: within one request the generation
\* backend is invoked at most once, each of the two search queries is issued at
\* most once, and the booking record is looked up at most once, whatever the
\* outcome of the call.
C17_NoRetry ==
    /\ calls.lookup <= 1 /\ calls.llm <= 1 /\ calls.search <= 2
    /\ pc \in {"receive", "verify", "get_db", "resolve"} => calls.lookup = 0
    /\ pc \in {"receive", "verify", "get_db", "resolve", "prepare", "generate"} =>
          calls.llm = 0
    /\ "model_used" \notin DOMAIN loc => calls.search = 0
    /\ pc = "search_restaurants" => calls.search = 0
    /\ pc = "search_tips" => calls.search <= 1
    /\ "restaurants" \notin DOMAIN loc => calls.search <= 1

\* a stored-booking request in generative mode whose two searches found nothing
C17_Witness ==
    /\ pc = "done" /\ resp.status = 200
    /\ calls = [lookup |-> 1, llm |-> 1, search |-> 2]
    /\ loc.restaurants = <<>> /\ loc.tips = <<>>
    /\ "llm_reply" \in DOMAIN loc

\* C18: in generative mode the backend output is accepted strictly as a JSON
\* array of day objects: every successful generative-mode response carries an
\* 'itinerary' that is a non-empty JSON array, and output that parses to any
\* other JSON value (object, string, number) ends the request with an error.
C18_StrictlyAnArray ==
    /\ (cfg.USE_OLLAMA /\ pc = "done" /\ resp.status = 200) =>
          resp.itinerary.t = "array" /\ resp.itinerary.items # <<>>
    /\ (pc = "done" /\ "llm_reply" \in DOMAIN loc
          /\ generate_itinerary(loc.llm_reply).t # "array") => resp.status = 500

-----------------------------------------------------------------------------
(* Properties of free-text inference *)

InferredParis ==
    /\ phase = "unit" /\ pc = "return" /\ fn = "infer_context_from_free_text"
    /\ args[1] = TextParis

\* C19: the free text "Plan a family trip to Paris next week for 5 days with
\* 2 kids, vegan, wheelchair accessible" resolves to a context whose location
\* contains "Paris", with kids = 2, party type family, dietary including
\* vegan, accessibility true and start date = now + 7 days; the start date is
\* the caller's own when the request also carries preferences.dates.start.
C19_ParisExample ==
    InferredParis =>
        /\ Contains(ret.location, <<"P","a","r","i","s">>)
        /\ ret.kids = 2
        /\ ret.party_type = <<"f","a","m","i","l","y">>
        /\ \E i \in 1..Len(ret.dietary) : ret.dietary[i] = <<"v","e","g","a","n">>
        /\ ret.easy_mobility = TRUE
        /\ "dates" \notin DOMAIN args[2] => ret.dates.start = strftime(args[3] + 7)
        /\ args[2] = PrefsStartOnly => ret.dates.start = PrefsStartOnly.dates.dict.start

\* inferred on 2024-02-27: the week ahead crosses the leap day
C19_Witness ==
    /\ InferredParis
    /\ args[2] = EmptyDict
    /\ args[3] = ToOrdinal(2024, 2, 27)
    /\ ret.dates.start = <<"2","0","2","4","-","0","3","-","0","5">>
    /\ ret.kids = 2 /\ ret.guests = 4

-----------------------------------------------------------------------------
(* Properties of the restaurant recommendations *)

BuiltRestaurants ==
    phase = "unit" /\ pc = "return" /\ fn = "build_restaurant_recommendations"

\* the i-th recommendation is the i-th enrichment result, reshaped
FromResult(rec, item) ==
    /\ rec.name = Strip(BeforeBar(item.title))
    /\ rec.sourceUrl = item.url
    /\ rec.summary = item.snippet

\* C20: for every enrichment result list of length n,
\* build_restaurant_recommendations returns min(n, 3) recommendations built
\* from the first 3 results in order when n > 0, and exactly one static
\* fallback recommendation when n = 0, whose name is 'Plant-Based Kitchen' if
\* 'vegan' is among the requested dietary filters and "Chef's Table" otherwise.
C20_FirstThreeOrFallback ==
    BuiltRestaurants =>
        /\ Len(args[6]) > 0 =>
              /\ Len(ret) = Min({Len(args[6]), 3})
              /\ \A i \in 1..Len(ret) : FromResult(ret[i], args[6][i])
        /\ Len(args[6]) = 0 =>
              /\ Len(ret) = 1
              /\ ret[1].sourceUrl = None
              /\ ret[1].name = IF \E i \in 1..Len(args[2]) : args[2][i] = <<"v","e","g","a","n">>
                               THEN <<"P","l","a","n","t","-","B","a","s","e","d"," ","K","i","t","c","h","e","n">> ELSE <<"C","h","e","f","'","s"," ","T","a","b","l","e">>

C20_Witness ==
    /\ BuiltRestaurants
    /\ Len(args[6]) = 0
    /\ args[2] = <<<<"g","l","u","t","e","n","-","f","r","e","e">>, <<"v","e","g","a","n">>>>
    /\ Len(ret) = 1
    /\ ret[1].name = <<"P","l","a","n","t","-","B","a","s","e","d"," ","K","i","t","c","h","e","n">>

-----------------------------------------------------------------------------
(* Properties of the dietary filters of a request *)

\* the context of the request was derived from its free text, and the
\* preference set has been normalized
NormalizedFromText ==
    /\ "requested_dietary" \in DOMAIN loc
    /\ loc.derived_from_free_text

\* the dietary hints found in the free text
InferredDietary == DietaryLoop(Lower(Strip(req.free_text)), 1)

\* C21: the normalized dietary filters used for the response contain every
\* dietary value supplied by the caller and every dietary hint inferred from
\* the request's free text, lower-cased, deduplicated and in first-seen order;
\* when the caller supplies a dietary preference and the free text names a
\* different one, both appear.
C21_CallerAndInferredDietary ==
    NormalizedFromText =>
        loc.requested_dietary =
            normalize_dietary_filters(Get(req.preferences, "dietary", PyNone), InferredDietary)

-----------------------------------------------------------------------------
(* Properties of free-text extraction *)

\* the resolver has run on a request whose only source is its free text
ResolvedFromText ==
    Resolved /\ ~HasBookingId(req) /\ ~HasInlineBooking(req) /\ HasFreeText(req)

\* the separators as stated: a comma, a semicolon, or the word "and"
IsWordChar(c) == IsAlpha(c) \/ IsDigit(c) \/ c = "_"
WordAndAt(text, k) ==
    /\ StartsAt(text, k, <<"a","n","d">>)
    /\ k = 1 \/ ~IsWordChar(text[k - 1])
    /\ k + 3 > Len(text) \/ ~IsWordChar(text[k + 3])
StatedSepLenAt(text, k) ==
    IF text[k] \in {",", ";"} THEN 1 ELSE IF WordAndAt(text, k) THEN 3 ELSE 0
StatedNextSep(text, i) ==
    Min({k \in i..Len(text) : StatedSepLenAt(text, k) > 0} \cup {Len(text) + 1})

\* the first non-empty fragment of text[i..] under the stated separators
RECURSIVE StatedFragmentFrom(_, _)
StatedFragmentAt(text, i, j) ==
    IF Strip(SubSeq(text, i, j - 1)) # <<>> THEN Strip(SubSeq(text, i, j - 1))
    ELSE IF j > Len(text) THEN None
    ELSE StatedFragmentFrom(text, j + StatedSepLenAt(text, j))
StatedFragmentFrom(text, i) ==
    IF i > Len(text) THEN None ELSE StatedFragmentAt(text, i, StatedNextSep(text, i))

\* the candidate location as stated: the place matched, else the fragment
StatedLocation(text) ==
    IF Truthy(StripGroup(LocSearch(text))) THEN StripGroup(LocSearch(text))
    ELSE StatedFragmentFrom(text, 1)

\* C22: in free-text extraction, when the text has no match for the
\* "in <place>" pattern, the location is the first non-empty fragment of the
\* text obtained by splitting on commas, semicolons and the word "and";
\* resolution fails with HTTP 400 exactly when no non-empty candidate location
\* exists.
C22_FirstFragmentLocation ==
    ResolvedFromText =>
        /\ (pc = "done" /\ resp.status = 400) <=>
              StatedLocation(Strip(req.free_text)) = None
        /\ "location" \in DOMAIN loc /\ LocSearch(Strip(req.free_text)) = None =>
              loc.location = StatedFragmentFrom(Strip(req.free_text), 1)

\* infer_context_from_free_text has returned a context for a non-empty text
\* and preferences without dates
InferredDates ==
    /\ phase = "unit" /\ pc = "return" /\ fn = "infer_context_from_free_text"
    /\ Truthy(args[1])
    /\ "dates" \notin DOMAIN args[2]

\* the start date as stated, for the lower-cased text and today's ordinal
StatedStart(lowered, today) ==
    IF Contains(lowered, <<"n","e","x","t"," ","w","e","e","k">>) THEN {today + 7}
    ELSE IF Contains(lowered, <<"w","e","e","k","e","n","d">>)
    THEN {d \in today..(today + 6) : Weekday(d) = 4}
    ELSE IF Contains(lowered, <<"t","o","m","o","r","r","o","w">>) THEN {today + 1}
    ELSE {today + 3}
StatedDuration(lowered) == IF Contains(lowered, <<"w","e","e","k">>) THEN 7 ELSE 3

\* C23: in free-text extraction without explicit preferences.dates, the start
\* date is now + 3 days by default, now + 7 days if the text contains "next
\* week", otherwise the upcoming Friday (a Friday between today and today + 6
\* days) if it contains "weekend", otherwise now + 1 day if it contains
\* "tomorrow"; the trip spans 3 days, or 7 days if the text contains "week",
\* so end = start + duration - 1.
C23_DateAnchoring ==
    InferredDates =>
        \E start \in StatedStart(Lower(Strip(args[1])), args[3]) :
            /\ ret.dates.start = strftime(start)
            /\ ret.dates.end = strftime(start + StatedDuration(Lower(Strip(args[1]))) - 1)

\* a weekend text on Tuesday 2024-02-27: Friday is 2024-03-01, seven days
C23_Witness ==
    /\ InferredDates
    /\ args[1] = TextWeekend
    /\ args[3] = ToOrdinal(2024, 2, 27)
    /\ ret.dates.start = <<"2","0","2","4","-","0","3","-","0","1">>
    /\ ret.dates.end = <<"2","0","2","4","-","0","3","-","0","7">>

-----------------------------------------------------------------------------
(* Properties of the shared database handle *)

\* every handle get_db has returned so far is the one opened at startup, and
\* the global holds nothing else
OneHandle ==
    /\ db \in {NoHandle, dbm}
    /\ \A t \in Threads : ret[t] \in {Pending, dbm}
    /\ \A t \in Threads : ret[t] # Pending => dbm = Handle

\* C24: under any interleaving of concurrent requests, the lazily initialised
\* global database handle is set at most to one value: every call of get_db
\* after a successful startup returns the same handle, and once the global is
\* non-null no request ever replaces it.
C24_HandleSetOnce ==
    /\ []OneHandle
    /\ [][db # NoHandle => db' = db]_vars

\* both threads found the global empty; one has stored and returned the
\* handle, the other is about to store it again
C24_Witness ==
    /\ phase = "serving"
    /\ pc[1] = "store" /\ pc[2] = "idle"
    /\ db = Handle /\ ret[2] = Handle /\ loc[1] = Handle

-----------------------------------------------------------------------------
(* Properties of startup *)

\* the configured secret is neither missing, blank, nor under 32 characters
SecretAcceptable ==
    /\ cfg.JWT_SECRET # <<>>
    /\ \E i \in 1..Len(cfg.JWT_SECRET) : cfg.JWT_SECRET[i] # " "
    /\ Len(cfg.JWT_SECRET) >= 32

\* C25: the service never reaches the request-serving state with a missing or
\* weak secret: startup validation runs before the database connection is
\* opened and aborts startup when JWT_SECRET is empty, whitespace-only or
\* shorter than 32 characters, so every request that is served is verified
\* against a secret of at least 32 characters.
C25_NoServingWithWeakSecret ==
    /\ phase = "serving" => SecretAcceptable
    /\ ~SecretAcceptable => phase \in {"boot", "aborted"}
    /\ phase = "boot" => dbm = NoHandle
    /\ dbm # NoHandle => SecretAcceptable
    /\ pc # "idle" => (phase = "serving" /\ Len(cfg.JWT_SECRET) >= 32)

\* a request served to the end after a startup that passed validation
C25_Witness ==
    /\ phase = "serving" /\ dbm = Handle
    /\ cfg.JWT_SECRET = StrongSecret
    /\ pc = "done" /\ resp.status = 200
    /\ cred.credentials.key = cfg.JWT_SECRET

====
